---- MODULE Spec2Model ----
(***************************************************************************)
(* json2msgp: heuristic conversion of a dynamically typed document (parsed *)
(* JSON or native Go values) to MessagePack.                               *)
(*                                                                         *)
(* Strings, keys and buffers are sequences of bytes (0..255).  A float64   *)
(* is the 8 bytes of its IEEE-754 bit pattern, most significant first.  An *)
(* int64 / uint64 is 8 bytes, big-endian (two's complement for int64).     *)
(***************************************************************************)
EXTENDS Integers, Sequences, FiniteSets, TLC

VARIABLES
  arch,       \* the build: how a float->integer conversion behaves out of range
  in,         \* the value handed to Convert / denoted by the JSON text
  typeHints,  \* the typeHints argument
  pc,         \* position of the running call
  jsobj,      \* ConvertStream: the unmarshalled document
  ret,        \* what Convert returned: buffer, err, the Converter's final fields
  out,        \* ConvertStream: bytes written to the out writer
  writes,     \* ConvertStream: number of calls of out.Write
  streamErr,  \* ConvertStream: the returned error ("" is nil)
  calls       \* the calls of Convert this process has completed, oldest first

vars == <<arch, in, typeHints, pc, jsobj, ret, out, writes, streamErr, calls>>

-----------------------------------------------------------------------------
(* Bytes and bits *)

\* a sequence given as a function, laid out as a tuple
AsTuple(f) == <<>> \o f

RECURSIVE Pow2(_)
Pow2(n) == IF n = 0 THEN 1 ELSE 2 * Pow2(n - 1)

\* the bits of a byte string, most significant first
BytesToBits(bs) ==
  AsTuple([i \in 1..(8 * Len(bs)) |->
             (bs[((i - 1) \div 8) + 1] \div Pow2(7 - ((i - 1) % 8))) % 2])

ByteOfBits(bits, k) ==
  bits[8*k-7] * 128 + bits[8*k-6] * 64 + bits[8*k-5] * 32 + bits[8*k-4] * 16
    + bits[8*k-3] * 8 + bits[8*k-2] * 4 + bits[8*k-1] * 2 + bits[8*k]

BitsToBytes(bits) == AsTuple([k \in 1..(Len(bits) \div 8) |-> ByteOfBits(bits, k)])

\* value of a short bit string (fewer than 31 bits)
RECURSIVE BitsValue(_)
BitsValue(bits) ==
  IF Len(bits) = 0 THEN 0
  ELSE 2 * BitsValue(SubSeq(bits, 1, Len(bits) - 1)) + bits[Len(bits)]

Zeros(n) == AsTuple([i \in 1..n |-> 0])
Repeat(b, n) == AsTuple([i \in 1..n |-> b])

\* big-endian bytes of a small non-negative number, n bytes wide
BigEndian(v, n) == AsTuple([i \in 1..n |-> (v \div Pow2(8 * (n - i))) % 256])

\* string comparison of Go: byte-wise, unsigned, a proper prefix is smaller
RECURSIVE BytesLess(_, _)
BytesLess(a, b) ==
  IF Len(b) = 0 THEN FALSE
  ELSE IF Len(a) = 0 THEN TRUE
  ELSE IF a[1] # b[1] THEN a[1] < b[1]
  ELSE BytesLess(Tail(a), Tail(b))

-----------------------------------------------------------------------------
(* 64-bit integers as 8 bytes *)

\* int64(n) for a small model integer n
I64(n) == AsTuple([i \in 1..8 |-> IF i >= 5 THEN (n \div Pow2(8 * (8 - i))) % 256
                                  ELSE IF n < 0 THEN 255 ELSE 0])

MinInt64 == <<128, 0, 0, 0, 0, 0, 0, 0>>
MaxInt64 == <<127, 255, 255, 255, 255, 255, 255, 255>>
MaxUint64 == <<255, 255, 255, 255, 255, 255, 255, 255>>
MaxUint32 == <<0, 0, 0, 0, 255, 255, 255, 255>>
MinInt32 == <<255, 255, 255, 255, 128, 0, 0, 0>>

U64LessEq(a, b) == a = b \/ BytesLess(a, b)
FlipSign(a) == <<(a[1] + 128) % 256>> \o Tail(a)
I64LessEq(a, b) == U64LessEq(FlipSign(a), FlipSign(b))
I64Negative(a) == a[1] >= 128

RECURSIVE AddOne(_)
AddOne(bs) ==
  IF Len(bs) = 0 THEN bs
  ELSE IF bs[Len(bs)] = 255 THEN Append(AddOne(SubSeq(bs, 1, Len(bs) - 1)), 0)
  ELSE Append(SubSeq(bs, 1, Len(bs) - 1), bs[Len(bs)] + 1)

\* two's complement negation
Negate(bs) == AddOne(AsTuple([i \in 1..Len(bs) |-> 255 - bs[i]]))

\* the low w bits of a, sign-extended (signed) or zero-extended to 64 bits
Truncate(a, w, signed) ==
  LET n == w \div 8
      low == SubSeq(a, 9 - n, 8)
      fill == IF signed /\ low[1] >= 128 THEN 255 ELSE 0
  IN Repeat(fill, 8 - n) \o low

-----------------------------------------------------------------------------
(* float64: fields of the IEEE-754 bit pattern *)

FloatSign(f) == f[1] \div 128
FloatExp(f) == (f[1] % 128) * 16 + (f[2] \div 16)
FloatMan(f) == SubSeq(BytesToBits(f), 13, 64)
IsNaN(f) == FloatExp(f) = 2047 /\ FloatMan(f) # Zeros(52)
IsInf(f) == FloatExp(f) = 2047 /\ FloatMan(f) = Zeros(52)
IsFinite(f) == FloatExp(f) # 2047

\* the value is Significand * 2^(Exponent - 52), Significand read as 53 bits
Exponent(f) == IF FloatExp(f) = 0 THEN 0 - 1022 ELSE FloatExp(f) - 1023
Significand(f) == <<IF FloatExp(f) = 0 THEN 0 ELSE 1>> \o FloatMan(f)

\* magnitude of the integer part (the fraction discarded), as 64 bits;
\* meaningful when Exponent(f) <= 63
IntMagnitude(f) ==
  LET e == Exponent(f)
      sig == Significand(f)
  IN BitsToBytes(AsTuple([i \in 1..64 |->
        LET k == i - (63 - e) IN IF k >= 1 /\ k <= 53 THEN sig[k] ELSE 0]))

HasFraction(f) ==
  LET e == Exponent(f)
      sig == Significand(f)
  IN IsFinite(f) /\ \E k \in 1..53 : k > e + 1 /\ sig[k] = 1

\* the truncated value is representable as int64 / uint64
FitsInt64(f) ==
  /\ IsFinite(f)
  /\ \/ Exponent(f) <= 62
     \/ FloatSign(f) = 1 /\ Exponent(f) = 63 /\ FloatMan(f) = Zeros(52)

FitsUint64(f) ==
  /\ IsFinite(f)
  /\ Exponent(f) <= 63
  /\ FloatSign(f) = 0 \/ IntMagnitude(f) = Zeros(8)

TruncInt64(f) == IF FloatSign(f) = 1 THEN Negate(IntMagnitude(f)) ELSE IntMagnitude(f)

\* float64(i) for an int64 i: exact up to 53 significant bits, otherwise
\* rounded to nearest, ties to even
Float64OfInt64(i) ==
  LET s == IF I64Negative(i) THEN 1 ELSE 0
      mag == BytesToBits(IF s = 1 THEN Negate(i) ELSE i)
      ones == {k \in 1..64 : mag[k] = 1}
      p == CHOOSE k \in ones : \A j \in ones : k <= j
      sig == AsTuple([k \in 1..53 |-> IF p + k - 1 <= 64 THEN mag[p + k - 1] ELSE 0])
      guard == IF p + 53 <= 64 THEN mag[p + 53] ELSE 0
      sticky == \E k \in (p + 54)..64 : mag[k] = 1
      up == guard = 1 /\ (sticky \/ sig[53] = 1)
      sum == IF up THEN AddOne(BitsToBytes(<<0, 0, 0>> \o sig))
             ELSE BitsToBytes(<<0, 0, 0>> \o sig)
      carry == sum[1] >= 32                      \* the significand reached 2^53
      e == (64 - p) + 1023 + (IF carry THEN 1 ELSE 0)
      man == IF carry THEN Zeros(52) ELSE SubSeq(BytesToBits(sum), 5, 56)
      ebits == AsTuple([k \in 1..11 |-> (e \div Pow2(11 - k)) % 2])
  IN IF ones = {} THEN Zeros(8)
     ELSE BitsToBytes(<<s>> \o ebits \o man)

IsZero(f) == FloatExp(f) = 0 /\ FloatMan(f) = Zeros(52)

\* the == of Go on float64: NaN equals nothing, the two zeros are equal
FloatEq(f, g) == ~IsNaN(f) /\ ~IsNaN(g) /\ (f = g \/ (IsZero(f) /\ IsZero(g)))

-----------------------------------------------------------------------------
(* Conversion of a float64 to the integer types.  In range it truncates     *)
(* towards zero.  Out of range the Go specification leaves the result to    *)
(* the implementation; arch selects the behaviour of the 64-bit builds:     *)
(* the signed conversion instruction of "amd64" yields the "integer         *)
(* indefinite" value, that of "arm64" saturates (NaN becomes 0).  uint64 is *)
(* the unsigned instruction on arm64 and, on amd64, the signed conversion   *)
(* of x below 2^63 and of x - 2^63, with the top bit set, from 2^63 on.     *)
(* uint32 is the signed 64-bit conversion truncated; the types narrower     *)
(* than 32 bits are the signed 32-bit conversion truncated.                 *)

CvtInt64(a, f) ==
  IF FitsInt64(f) THEN TruncInt64(f)
  ELSE IF a = "amd64" THEN MinInt64
  ELSE IF IsNaN(f) THEN Zeros(8)
  ELSE IF FloatSign(f) = 1 THEN MinInt64 ELSE MaxInt64

FitsInt32(f) == FitsInt64(f) /\ Truncate(TruncInt64(f), 32, TRUE) = TruncInt64(f)

CvtInt32(a, f) ==
  IF FitsInt32(f) THEN TruncInt64(f)
  ELSE IF a = "amd64" THEN MinInt32
  ELSE IF IsNaN(f) THEN Zeros(8)
  ELSE IF FloatSign(f) = 1 THEN MinInt32 ELSE I64(2147483647)

CvtUint64(a, f) ==
  IF FitsUint64(f) THEN IntMagnitude(f)
  ELSE IF a = "amd64"
       THEN IF FitsInt64(f) THEN TruncInt64(f)       \* negative: reinterpreted
            ELSE MinInt64                            \* indefinite, top bit set
  ELSE IF IsNaN(f) \/ FloatSign(f) = 1 THEN Zeros(8) ELSE MaxUint64

CvtUint32(a, f) == Truncate(CvtInt64(a, f), 32, FALSE)

CvtInt16(a, f) == Truncate(CvtInt32(a, f), 16, TRUE)
CvtInt8(a, f) == Truncate(CvtInt32(a, f), 8, TRUE)
CvtUint16(a, f) == Truncate(CvtInt32(a, f), 16, FALSE)
CvtUint8(a, f) == Truncate(CvtInt32(a, f), 8, FALSE)

\* math.Float32bits(float32(x)): round to nearest, ties to even
Float32Bits(f) ==
  LET s == FloatSign(f)
      sig == Significand(f)
      exp32 == Exponent(f) + 127
      keep == IF exp32 >= 1 THEN 24 ELSE 23 + exp32
      q == IF keep <= 0 THEN 0 ELSE BitsValue(SubSeq(sig, 1, keep))
      guard == IF keep < 0 THEN 0 ELSE sig[keep + 1]
      sticky == \E k \in (keep + 2)..53 : k >= 1 /\ sig[k] = 1
      up == IF guard = 1 /\ (sticky \/ q % 2 = 1) THEN 1 ELSE 0
      inf == 255 * Pow2(23)
      top23 == BitsValue(SubSeq(FloatMan(f), 1, 23))
      field ==
        IF IsNaN(f) THEN inf + (IF top23 >= Pow2(22) THEN top23 ELSE top23 + Pow2(22))
        ELSE IF IsInf(f) \/ exp32 >= 255 THEN inf
        ELSE IF FloatExp(f) = 0 \/ keep < 0 THEN 0
        ELSE IF exp32 >= 1 THEN (exp32 - 1) * Pow2(23) + q + up
        ELSE q + up
  IN <<s * 128 + (field \div Pow2(24))>> \o BigEndian(field % Pow2(24), 3)

-----------------------------------------------------------------------------
(* The MessagePack primitive writers of github.com/tinylib/msgp/msgp *)

AppendNil(b) == b \o <<192>>                              \* 0xc0
AppendBool(b, v) == b \o <<IF v THEN 195 ELSE 194>>       \* 0xc3, 0xc2

AppendInt64(b, i) ==
  IF ~I64Negative(i)
  THEN IF I64LessEq(i, I64(127)) THEN b \o <<i[8]>>                       \* fixint
       ELSE IF I64LessEq(i, I64(32767)) THEN b \o <<209>> \o SubSeq(i, 7, 8)   \* 0xd1
       ELSE IF I64LessEq(i, I64(2147483647)) THEN b \o <<210>> \o SubSeq(i, 5, 8) \* 0xd2
       ELSE b \o <<211>> \o i                                             \* 0xd3
  ELSE IF I64LessEq(I64(0 - 32), i) THEN b \o <<224 + (i[8] % 32)>>       \* negative fixint
       ELSE IF I64LessEq(I64(0 - 128), i) THEN b \o <<208, i[8]>>         \* 0xd0
       ELSE IF I64LessEq(I64(0 - 32768), i) THEN b \o <<209>> \o SubSeq(i, 7, 8)
       ELSE IF I64LessEq(MinInt32, i) THEN b \o <<210>> \o SubSeq(i, 5, 8)
       ELSE b \o <<211>> \o i

AppendUint64(b, u) ==
  IF U64LessEq(u, I64(127)) THEN b \o <<u[8]>>                            \* fixint
  ELSE IF U64LessEq(u, I64(255)) THEN b \o <<204, u[8]>>                  \* 0xcc
  ELSE IF U64LessEq(u, I64(65535)) THEN b \o <<205>> \o SubSeq(u, 7, 8)   \* 0xcd
  ELSE IF U64LessEq(u, MaxUint32) THEN b \o <<206>> \o SubSeq(u, 5, 8)    \* 0xce
  ELSE b \o <<207>> \o u                                                  \* 0xcf

\* AppendInt, AppendInt8, AppendInt16 and AppendInt32 are AppendInt64 of the
\* widened value; AppendUint, AppendUint8 (AppendByte), AppendUint16 and
\* AppendUint32 are AppendUint64 of the widened value
AppendFloat64(b, f) == b \o <<203>> \o f                                  \* 0xcb
AppendFloat32(b, f32) == b \o <<202>> \o f32                              \* 0xca

AppendString(b, s) ==
  IF Len(s) <= 31 THEN b \o <<160 + Len(s)>> \o s                         \* fixstr
  ELSE IF Len(s) <= 255 THEN b \o <<217, Len(s)>> \o s                    \* 0xd9
  ELSE IF Len(s) <= 65535 THEN b \o <<218>> \o BigEndian(Len(s), 2) \o s  \* 0xda
  ELSE b \o <<219>> \o BigEndian(Len(s), 4) \o s                          \* 0xdb

AppendBytes(b, bts) ==
  IF Len(bts) <= 255 THEN b \o <<196, Len(bts)>> \o bts                   \* 0xc4
  ELSE IF Len(bts) <= 65535 THEN b \o <<197>> \o BigEndian(Len(bts), 2) \o bts
  ELSE b \o <<198>> \o BigEndian(Len(bts), 4) \o bts

AppendMapHeader(b, sz) ==
  IF sz <= 15 THEN b \o <<128 + sz>>                                      \* fixmap
  ELSE IF sz <= 65535 THEN b \o <<222>> \o BigEndian(sz, 2)               \* 0xde
  ELSE b \o <<223>> \o BigEndian(sz, 4)

AppendArrayHeader(b, sz) ==
  IF sz <= 15 THEN b \o <<144 + sz>>                                      \* fixarray
  ELSE IF sz <= 65535 THEN b \o <<220>> \o BigEndian(sz, 2)               \* 0xdc
  ELSE b \o <<221>> \o BigEndian(sz, 4)

-----------------------------------------------------------------------------
(* The string tests of stringHeuristic *)

IsCont(c) == c >= 128 /\ c <= 191

\* unicode/utf8.ValidString
RECURSIVE ValidString(_)
ValidString(s) ==
  IF Len(s) = 0 THEN TRUE
  ELSE LET c == s[1]
           n == Len(s)
           two(lo, hi) == n >= 2 /\ s[2] >= lo /\ s[2] <= hi
           rest(k) == SubSeq(s, k + 1, n)
       IN IF c < 128 THEN ValidString(rest(1))
          ELSE IF c >= 194 /\ c <= 223 THEN two(128, 191) /\ ValidString(rest(2))
          ELSE IF c >= 224 /\ c <= 239
            THEN /\ two(IF c = 224 THEN 160 ELSE 128, IF c = 237 THEN 159 ELSE 191)
                 /\ n >= 3 /\ IsCont(s[3]) /\ ValidString(rest(3))
          ELSE IF c >= 240 /\ c <= 244
            THEN /\ two(IF c = 240 THEN 144 ELSE 128, IF c = 244 THEN 143 ELSE 191)
                 /\ n >= 4 /\ IsCont(s[3]) /\ IsCont(s[4]) /\ ValidString(rest(4))
          ELSE FALSE

\* the decode map of base64.StdEncoding; -1 for a byte outside the alphabet
B64Index(c) ==
  IF c >= 65 /\ c <= 90 THEN c - 65            \* A-Z
  ELSE IF c >= 97 /\ c <= 122 THEN c - 71      \* a-z
  ELSE IF c >= 48 /\ c <= 57 THEN c + 4        \* 0-9
  ELSE IF c = 43 THEN 62                       \* +
  ELSE IF c = 47 THEN 63                       \* /
  ELSE 0 - 1

IsNewline(c) == c = 10 \/ c = 13
NotNewline(c) == ~IsNewline(c)

\* base64.StdEncoding.DecodeString(s) returns a nil error: \r and \n are
\* skipped; what is left is whole quanta of 4, padded with = at the very end
\* only (the decoder is not in Strict mode: trailing bits are not checked)
B64Padding(t) ==
  IF Len(t) >= 1 /\ t[Len(t)] = 61
  THEN IF Len(t) >= 2 /\ t[Len(t) - 1] = 61 THEN 2 ELSE 1
  ELSE 0

B64Data(s) ==
  LET t == SelectSeq(s, NotNewline) IN SubSeq(t, 1, Len(t) - B64Padding(t))

B64Valid(s) ==
  LET t == SelectSeq(s, NotNewline)
      d == B64Data(s)
  IN /\ Len(t) % 4 = 0
     /\ \A i \in 1..Len(d) : B64Index(d[i]) >= 0
     /\ Len(t) - Len(d) > 0 => Len(d) % 4 >= 2

B64Decode(s) ==
  LET d == B64Data(s)
      bits == [i \in 1..(6 * Len(d)) |->
                 (B64Index(d[((i - 1) \div 6) + 1]) \div Pow2(5 - ((i - 1) % 6))) % 2]
      n == (6 * Len(d)) \div 8
  IN BitsToBytes(SubSeq(bits, 1, 8 * n))

\* utf8.DecodeRuneInString: the code point at the head of s and its width;
\* a byte that starts no valid encoding is RuneError (U+FFFD), width 1
DecodeRune(s) ==
  LET c == s[1]
      n == Len(s)
      two(lo, hi) == n >= 2 /\ s[2] >= lo /\ s[2] <= hi
  IN IF c < 128 THEN [r |-> c, w |-> 1]
     ELSE IF c >= 194 /\ c <= 223 /\ two(128, 191)
       THEN [r |-> (c - 192) * 64 + (s[2] - 128), w |-> 2]
     ELSE IF /\ c >= 224 /\ c <= 239
             /\ two(IF c = 224 THEN 160 ELSE 128, IF c = 237 THEN 159 ELSE 191)
             /\ n >= 3 /\ IsCont(s[3])
       THEN [r |-> (c - 224) * 4096 + (s[2] - 128) * 64 + (s[3] - 128), w |-> 3]
     ELSE IF /\ c >= 240 /\ c <= 244
             /\ two(IF c = 240 THEN 144 ELSE 128, IF c = 244 THEN 143 ELSE 191)
             /\ n >= 4 /\ IsCont(s[3]) /\ IsCont(s[4])
       THEN [r |-> (c - 240) * 262144 + (s[2] - 128) * 4096
                     + (s[3] - 128) * 64 + (s[4] - 128), w |-> 4]
     ELSE [r |-> 65533, w |-> 1]

\* utf8.AppendRune
EncodeRune(r) ==
  IF r < 128 THEN <<r>>
  ELSE IF r < 2048 THEN <<192 + (r \div 64), 128 + (r % 64)>>
  ELSE IF r < 65536
    THEN <<224 + (r \div 4096), 128 + ((r \div 64) % 64), 128 + (r % 64)>>
  ELSE <<240 + (r \div 262144), 128 + ((r \div 4096) % 64),
         128 + ((r \div 64) % 64), 128 + (r % 64)>>

\* the upper-case and title-case runes beyond ASCII with their lower case
\* (Unicode 14): <<lo, hi, stride, delta>> sends the runes lo, lo + stride,
\* ..., hi to themselves plus delta
CaseRanges ==
  <<<<192, 214, 1, 32>>, <<216, 222, 1, 32>>, <<256, 302, 2, 1>>,
    <<304, 304, 1, 0 - 199>>, <<306, 310, 2, 1>>, <<313, 327, 2, 1>>, <<330, 374, 2, 1>>,
    <<376, 376, 1, 0 - 121>>, <<377, 381, 2, 1>>, <<385, 385, 1, 210>>,
    <<386, 388, 2, 1>>, <<390, 390, 1, 206>>, <<391, 391, 1, 1>>, <<393, 394, 1, 205>>,
    <<395, 395, 1, 1>>, <<398, 398, 1, 79>>, <<399, 399, 1, 202>>, <<400, 400, 1, 203>>,
    <<401, 401, 1, 1>>, <<403, 403, 1, 205>>, <<404, 404, 1, 207>>, <<406, 406, 1, 211>>,
    <<407, 407, 1, 209>>, <<408, 408, 1, 1>>, <<412, 412, 1, 211>>, <<413, 413, 1, 213>>,
    <<415, 415, 1, 214>>, <<416, 420, 2, 1>>, <<422, 422, 1, 218>>, <<423, 423, 1, 1>>,
    <<425, 425, 1, 218>>, <<428, 428, 1, 1>>, <<430, 430, 1, 218>>, <<431, 431, 1, 1>>,
    <<433, 434, 1, 217>>, <<435, 437, 2, 1>>, <<439, 439, 1, 219>>, <<440, 440, 1, 1>>,
    <<444, 444, 1, 1>>, <<452, 452, 1, 2>>, <<453, 453, 1, 1>>, <<455, 455, 1, 2>>,
    <<456, 456, 1, 1>>, <<458, 458, 1, 2>>, <<459, 475, 2, 1>>, <<478, 494, 2, 1>>,
    <<497, 497, 1, 2>>, <<498, 500, 2, 1>>, <<502, 502, 1, 0 - 97>>,
    <<503, 503, 1, 0 - 56>>, <<504, 542, 2, 1>>, <<544, 544, 1, 0 - 130>>,
    <<546, 562, 2, 1>>, <<570, 570, 1, 10795>>, <<571, 571, 1, 1>>,
    <<573, 573, 1, 0 - 163>>, <<574, 574, 1, 10792>>, <<577, 577, 1, 1>>,
    <<579, 579, 1, 0 - 195>>, <<580, 580, 1, 69>>, <<581, 581, 1, 71>>,
    <<582, 590, 2, 1>>, <<880, 882, 2, 1>>, <<886, 886, 1, 1>>, <<895, 895, 1, 116>>,
    <<902, 902, 1, 38>>, <<904, 906, 1, 37>>, <<908, 908, 1, 64>>, <<910, 911, 1, 63>>,
    <<913, 929, 1, 32>>, <<931, 939, 1, 32>>, <<975, 975, 1, 8>>, <<984, 1006, 2, 1>>,
    <<1012, 1012, 1, 0 - 60>>, <<1015, 1015, 1, 1>>, <<1017, 1017, 1, 0 - 7>>,
    <<1018, 1018, 1, 1>>, <<1021, 1023, 1, 0 - 130>>, <<1024, 1039, 1, 80>>,
    <<1040, 1071, 1, 32>>, <<1120, 1152, 2, 1>>, <<1162, 1214, 2, 1>>,
    <<1216, 1216, 1, 15>>, <<1217, 1229, 2, 1>>, <<1232, 1326, 2, 1>>,
    <<1329, 1366, 1, 48>>, <<4256, 4293, 1, 7264>>, <<4295, 4295, 1, 7264>>,
    <<4301, 4301, 1, 7264>>, <<5024, 5103, 1, 38864>>, <<5104, 5109, 1, 8>>,
    <<7312, 7354, 1, 0 - 3008>>, <<7357, 7359, 1, 0 - 3008>>, <<7680, 7828, 2, 1>>,
    <<7838, 7838, 1, 0 - 7615>>, <<7840, 7934, 2, 1>>, <<7944, 7951, 1, 0 - 8>>,
    <<7960, 7965, 1, 0 - 8>>, <<7976, 7983, 1, 0 - 8>>, <<7992, 7999, 1, 0 - 8>>,
    <<8008, 8013, 1, 0 - 8>>, <<8025, 8031, 2, 0 - 8>>, <<8040, 8047, 1, 0 - 8>>,
    <<8072, 8079, 1, 0 - 8>>, <<8088, 8095, 1, 0 - 8>>, <<8104, 8111, 1, 0 - 8>>,
    <<8120, 8121, 1, 0 - 8>>, <<8122, 8123, 1, 0 - 74>>, <<8124, 8124, 1, 0 - 9>>,
    <<8136, 8139, 1, 0 - 86>>, <<8140, 8140, 1, 0 - 9>>, <<8152, 8153, 1, 0 - 8>>,
    <<8154, 8155, 1, 0 - 100>>, <<8168, 8169, 1, 0 - 8>>, <<8170, 8171, 1, 0 - 112>>,
    <<8172, 8172, 1, 0 - 7>>, <<8184, 8185, 1, 0 - 128>>, <<8186, 8187, 1, 0 - 126>>,
    <<8188, 8188, 1, 0 - 9>>, <<8486, 8486, 1, 0 - 7517>>, <<8490, 8490, 1, 0 - 8383>>,
    <<8491, 8491, 1, 0 - 8262>>, <<8498, 8498, 1, 28>>, <<8544, 8559, 1, 16>>,
    <<8579, 8579, 1, 1>>, <<9398, 9423, 1, 26>>, <<11264, 11311, 1, 48>>,
    <<11360, 11360, 1, 1>>, <<11362, 11362, 1, 0 - 10743>>,
    <<11363, 11363, 1, 0 - 3814>>, <<11364, 11364, 1, 0 - 10727>>,
    <<11367, 11371, 2, 1>>, <<11373, 11373, 1, 0 - 10780>>,
    <<11374, 11374, 1, 0 - 10749>>, <<11375, 11375, 1, 0 - 10783>>,
    <<11376, 11376, 1, 0 - 10782>>, <<11378, 11378, 1, 1>>, <<11381, 11381, 1, 1>>,
    <<11390, 11391, 1, 0 - 10815>>, <<11392, 11490, 2, 1>>, <<11499, 11501, 2, 1>>,
    <<11506, 11506, 1, 1>>, <<42560, 42604, 2, 1>>, <<42624, 42650, 2, 1>>,
    <<42786, 42798, 2, 1>>, <<42802, 42862, 2, 1>>, <<42873, 42875, 2, 1>>,
    <<42877, 42877, 1, 0 - 35332>>, <<42878, 42886, 2, 1>>, <<42891, 42891, 1, 1>>,
    <<42893, 42893, 1, 0 - 42280>>, <<42896, 42898, 2, 1>>, <<42902, 42920, 2, 1>>,
    <<42922, 42922, 1, 0 - 42308>>, <<42923, 42923, 1, 0 - 42319>>,
    <<42924, 42924, 1, 0 - 42315>>, <<42925, 42925, 1, 0 - 42305>>,
    <<42926, 42926, 1, 0 - 42308>>, <<42928, 42928, 1, 0 - 42258>>,
    <<42929, 42929, 1, 0 - 42282>>, <<42930, 42930, 1, 0 - 42261>>,
    <<42931, 42931, 1, 928>>, <<42932, 42946, 2, 1>>, <<42948, 42948, 1, 0 - 48>>,
    <<42949, 42949, 1, 0 - 42307>>, <<42950, 42950, 1, 0 - 35384>>,
    <<42951, 42953, 2, 1>>, <<42960, 42960, 1, 1>>, <<42966, 42968, 2, 1>>,
    <<42997, 42997, 1, 1>>, <<65313, 65338, 1, 32>>, <<66560, 66599, 1, 40>>,
    <<66736, 66771, 1, 40>>, <<66928, 66928, 2, 39>>, <<66929, 66938, 1, 39>>,
    <<66940, 66954, 1, 39>>, <<66956, 66962, 1, 39>>, <<66964, 66965, 1, 39>>,
    <<68736, 68786, 1, 64>>, <<71840, 71871, 1, 32>>, <<93760, 93791, 1, 32>>,
    <<125184, 125217, 1, 34>> >>

\* unicode.ToLower.  U+0130 and U+212A are the two runes outside ASCII whose
\* lower case is an ASCII letter (i and k).
ToLowerRune(r) ==
  IF r < 128 THEN (IF r >= 65 /\ r <= 90 THEN r + 32 ELSE r)
  ELSE LET hits == {i \in 1..Len(CaseRanges) :
                      /\ CaseRanges[i][1] <= r /\ r <= CaseRanges[i][2]
                      /\ (r - CaseRanges[i][1]) % CaseRanges[i][3] = 0}
       IN IF hits = {} THEN r ELSE r + CaseRanges[CHOOSE i \in hits : TRUE][4]

\* strings.Map(unicode.ToLower, s): rune by rune, an invalid byte becomes
\* the encoding of U+FFFD
RECURSIVE MapToLower(_)
MapToLower(s) ==
  IF Len(s) = 0 THEN <<>>
  ELSE LET d == DecodeRune(s)
       IN EncodeRune(ToLowerRune(d.r)) \o MapToLower(SubSeq(s, d.w + 1, Len(s)))

\* strings.ToLower: byte-wise on an ASCII string, through Map otherwise
ToLower(s) ==
  IF \A i \in 1..Len(s) : s[i] < 128
  THEN AsTuple([i \in 1..Len(s) |-> IF s[i] >= 65 /\ s[i] <= 90 THEN s[i] + 32 ELSE s[i]])
  ELSE MapToLower(s)

\* the decode map of the base32 encoding of the addresses, whose alphabet is
\* a-z without l and o, then 2-9; -1 for a byte outside the alphabet
B32Index(c) ==
  IF c >= 97 /\ c <= 107 THEN c - 97            \* a-k
  ELSE IF c = 109 \/ c = 110 THEN c - 98         \* m n
  ELSE IF c >= 112 /\ c <= 122 THEN c - 99       \* p-z
  ELSE IF c >= 50 /\ c <= 57 THEN c - 26         \* 2-9
  ELSE 0 - 1

\* base32 decoding of quantum q (8 characters, 5 bytes) of t.  Reading
\* stops at the end of t, at a character outside the alphabet, and at a =
\* that is at least the third character of the quantum and has fewer than 8
\* characters after it; dlen characters were read before.  At such a = the
\* quantum must be filled with = and hold 2, 4, 5 or 7 characters of data,
\* and the decoding ends with it; any other stop is an error.
B32Quantum(t, q) ==
  LET Stop(j) ==
        \/ 8 * q + j + 1 > Len(t)
        \/ t[8 * q + j + 1] = 61 /\ j >= 2 /\ Len(t) - (8 * q + j + 1) < 8
        \/ B32Index(t[8 * q + j + 1]) < 0
      Pack(dlen) ==
        LET rem == Len(t) - (8 * q + dlen + 1)
            padded == /\ dlen < 8 /\ rem >= 0 /\ t[8 * q + dlen + 1] = 61
                      /\ dlen >= 2 /\ rem < 8
            ok == \/ dlen = 8
                  \/ /\ padded
                     /\ rem + dlen >= 7
                     /\ \A k \in 0..(6 - dlen) : rem > k => t[8 * q + dlen + 2 + k] = 61
                     /\ dlen \notin {1, 3, 6}
            bits == AsTuple([i \in 1..40 |->
                      IF (i - 1) \div 5 < dlen
                      THEN (B32Index(t[8 * q + ((i - 1) \div 5) + 1])
                              \div Pow2(4 - ((i - 1) % 5))) % 2
                      ELSE 0])
        IN [ok |-> ok, end |-> padded,
            bytes |-> IF ok THEN SubSeq(BitsToBytes(bits), 1, (5 * dlen) \div 8) ELSE <<>>]
  IN Pack(Cardinality({j \in 0..7 : \A k \in 0..j : ~Stop(k)}))

\* base32 DecodeString with = padding: \r and \n are dropped, then quantum
\* by quantum; ok is FALSE, and bytes empty, where DecodeString returns an
\* error
B32Decode(s) ==
  LET t == SelectSeq(s, NotNewline)
      From[q \in 0..(Len(t) \div 8)] ==
        IF 8 * q >= Len(t) THEN [ok |-> TRUE, bytes |-> <<>>]
        ELSE LET d == B32Quantum(t, q)
             IN IF ~d.ok THEN [ok |-> FALSE, bytes |-> <<>>]
                ELSE IF d.end THEN [ok |-> TRUE, bytes |-> d.bytes]
                ELSE LET r == From[q + 1]
                     IN IF r.ok THEN [ok |-> TRUE, bytes |-> d.bytes \o r.bytes] ELSE r
  IN From[0]

\* exclusive or of two 16-bit numbers; XorBit(p) is its bit p, a power of 2
Xor(a, b) ==
  LET XorBit(p) == (((a \div p) + (b \div p)) % 2) * p
  IN (((XorBit(1) + XorBit(2)) + (XorBit(4) + XorBit(8)))
       + ((XorBit(16) + XorBit(32)) + (XorBit(64) + XorBit(128))))
     + (((XorBit(256) + XorBit(512)) + (XorBit(1024) + XorBit(2048)))
       + ((XorBit(4096) + XorBit(8192)) + (XorBit(16384) + XorBit(32768))))

\* the register c after the byte b; Shift is one step of the register
\* (polynomial 0x1021, 16 bits) and Table(x) entry x of the table of the CRC,
\* the register x * 256 after 8 steps
Crc16Byte(c, b) ==
  LET Shift(r) == IF r >= 32768 THEN Xor((2 * r) % 65536, 4129) ELSE 2 * r
      Table(x) == Shift(Shift(Shift(Shift(Shift(Shift(Shift(Shift(256 * x))))))))
  IN Xor((c % 256) * 256, Table(Xor(c \div 256, b)))

\* the checksum of the addresses: CRC-16 with polynomial 0x1021 and initial
\* value 0x1d0f, most significant bit first.  Range[lo, hi, c] is the
\* register c after the bytes bs[lo..hi], the left half before the right.
Checksum16(bs) ==
  LET Range[lo \in 1..Len(bs), hi \in 1..Len(bs), c \in 0..65535] ==
        IF lo = hi THEN Crc16Byte(c, bs[lo])
        ELSE Range[((lo + hi) \div 2) + 1, hi, Range[lo, (lo + hi) \div 2, c]]
  IN IF Len(bs) = 0 THEN 7439 ELSE Range[1, Len(bs), 7439]

\* the addresses of the repository's tests, expected as strings although
\* they decode as base64
KnownAddresses ==
  {
    \* ndaea8w9gz84ncxrytepzxgkg9ymi4k7c9p427i6b57xw3r4
    <<110,100,97,101,97,56,119,57,103,122,56,52,110,99,120,114,121,116,101,112,122,120,
      103,107,103,57,121,109,105,52,107,55,99,57,112,52,50,55,105,54,98,53,55,120,
      119,51,114,52>>,
    \* ndaegwggj8qv7tqccvz6ffrthkbnmencp9t2y4mn89gdq3yk
    <<110,100,97,101,103,119,103,103,106,56,113,118,55,116,113,99,99,118,122,54,102,102,
      114,116,104,107,98,110,109,101,110,99,112,57,116,50,121,52,109,110,56,57,103,100,
      113,51,121,107>>,
    \* ndakj49v6nnbdq3yhnf8f2j6ivfzicedvfwtunckivfsw9qt
    <<110,100,97,107,106,52,57,118,54,110,110,98,100,113,51,121,104,110,102,56,102,50,
      106,54,105,118,102,122,105,99,101,100,118,102,119,116,117,110,99,107,105,118,102,115,
      119,57,113,116>>,
    \* ndmfgnz9qby6nyi35aadjt9nasjqxqyd4vrswucwfmceqs3y
    <<110,100,109,102,103,110,122,57,113,98,121,54,110,121,105,51,53,97,97,100,106,116,
      57,110,97,115,106,113,120,113,121,100,52,118,114,115,119,117,99,119,102,109,99,101,
      113,115,51,121>>,
    \* ndmmw2cwhhgcgk9edp5tiieqab3pq7uxdic2wabzx49twwxh
    <<110,100,109,109,119,50,99,119,104,104,103,99,103,107,57,101,100,112,53,116,105,105,
      101,113,97,98,51,112,113,55,117,120,100,105,99,50,119,97,98,122,120,52,57,116,
      119,119,120,104>>,
    \* ndnf9ffbzhyf8mk7z5vvqc4quzz5i2exp5zgsmhyhc9cuwr4
    <<110,100,110,102,57,102,102,98,122,104,121,102,56,109,107,55,122,53,118,118,113,99,
      52,113,117,122,122,53,105,50,101,120,112,53,122,103,115,109,104,121,104,99,57,99,
      117,119,114,52>> }

\* address.Validate(s) returns a nil error: lower-cased, the string starts
\* with "nd", is 48 bytes long, names a known kind (a n e x b m), decodes as
\* base32, and the last two decoded bytes are the checksum of those before
Validate(s) ==
  LET addr == ToLower(s) IN
  /\ Len(addr) >= 2 /\ addr[1] = 110 /\ addr[2] = 100
  /\ Len(addr) = 48
  /\ addr[3] \in {97, 110, 101, 120, 98, 109}
  /\ LET d == B32Decode(addr)
         h == d.bytes
         n == Len(h)
     IN /\ d.ok
        /\ n >= 2
        /\ Checksum16(SubSeq(h, 1, n - 2)) = 256 * h[n - 1] + h[n]

\* stringHeuristic with the base64 test made before the address test
stringHeuristic_Base64First(s, buffer) ==
  IF ~ValidString(s) THEN AppendBytes(buffer, s)
  ELSE IF B64Valid(s) THEN AppendBytes(buffer, B64Decode(s))
  ELSE AppendString(buffer, s)

stringHeuristic(s, buffer) ==
  IF ~ValidString(s) THEN AppendBytes(buffer, s)
  ELSE IF Validate(s) THEN AppendString(buffer, s)
  ELSE IF B64Valid(s) THEN AppendBytes(buffer, B64Decode(s))
  ELSE AppendString(buffer, s)

-----------------------------------------------------------------------------
(* Values.  A value is a record with its dynamic Go type in t:               *)
(*   [t |-> "nil"]                        the nil interface                  *)
(*   [t |-> "string", s |-> bytes]                                           *)
(*   [t |-> "float64", f |-> 8 bytes]                                        *)
(*   [t |-> "[]interface{}", xs |-> sequence of values]                      *)
(*   [t |-> "map[string]interface{}", m |-> sequence of <<key, value>>]      *)
(*   [t |-> "map[string]string", m |-> sequence of <<key, bytes>>]           *)
(*   [t |-> "bool", b |-> BOOLEAN]                                           *)
(*   [t |-> "int" | "int8" | ... | "uint64", i |-> 8 bytes] a native integer *)
(*   [t |-> "float32", f |-> 4 bytes]                                        *)
(*   [t |-> "ptr", isNil |-> BOOLEAN, elem |-> value]                        *)
(*   [t |-> "slice", xs |-> sequence of values]   a typed array or slice     *)
(*   [t |-> "struct"]                     a kind msgp.AppendIntf rejects     *)
(* A map is held as its entries in the order in which this run of the       *)
(* program iterates over it; the keys of a map are distinct.                 *)

SignedTypes == {"int", "int8", "int16", "int32", "int64"}
UnsignedTypes == {"uint", "uint8", "uint16", "uint32", "uint64"}

\* the tags of the switch on currentHint
NumericTags ==
  {"byte", "float32", "float64", "int", "int8", "int16", "int32", "int64",
   "uint", "uint8", "uint16", "uint32", "uint64"}

\* errors: kind "" is nil; a panic is carried like an error because it ends
\* the call at once as well
NoErr == [kind |-> "", key |-> <<>>, tag |-> "", value |-> <<>>]
TypeHintErr(key, tag) ==
  [kind |-> "Unsupported numeric type hint", key |-> key, tag |-> tag, value |-> <<>>]
NumericValueErr(x) ==
  [kind |-> "Unsupported numeric value", key |-> <<>>, tag |-> "", value |-> x]
UnsupportedTypeErr == [kind |-> "msgp: type not supported", key |-> <<>>, tag |-> "", value |-> <<>>]
Panic(what) == [kind |-> "panic", key |-> <<>>, tag |-> what, value |-> <<>>]

\* The Converter and the buffer while convert runs.  log records every
\* append to the buffer with the Converter's fields at that moment.
NewConverter ==
  [buffer |-> <<>>, err |-> NoErr, currentKey |-> <<>>, currentHint |-> 0, log |-> <<>>]

Emit(st, op, arg, tag, buffer) ==
  [st EXCEPT !.buffer = buffer,
             !.log = Append(@, [op |-> op, arg |-> arg, tag |-> tag,
                                currentKey |-> st.currentKey,
                                currentHint |-> st.currentHint,
                                at |-> Len(st.buffer),
                                data |-> SubSeq(buffer, Len(st.buffer) + 1, Len(buffer))])]

Fail(st, err) == [st EXCEPT !.err = err]

\* the switch on currentHint with the writers of the two families exchanged
AppendHinted_FamiliesSwapped(a, buffer, tag, x) ==
  CASE tag = "byte" -> AppendInt64(buffer, CvtUint8(a, x))
    [] tag = "float32" -> AppendFloat32(buffer, Float32Bits(x))
    [] tag = "float64" -> AppendFloat64(buffer, x)
    [] tag \in {"int", "int64"} -> AppendUint64(buffer, CvtInt64(a, x))
    [] tag = "int8" -> AppendUint64(buffer, CvtInt8(a, x))
    [] tag = "int16" -> AppendUint64(buffer, CvtInt16(a, x))
    [] tag = "int32" -> AppendUint64(buffer, CvtInt32(a, x))
    [] tag \in {"uint", "uint64"} -> AppendInt64(buffer, CvtUint64(a, x))
    [] tag = "uint8" -> AppendInt64(buffer, CvtUint8(a, x))
    [] tag = "uint16" -> AppendInt64(buffer, CvtUint16(a, x))
    [] tag = "uint32" -> AppendInt64(buffer, CvtUint32(a, x))

\* the switch on currentHint: the cast and the writer of each tag
AppendHinted(a, buffer, tag, x) ==
  CASE tag = "byte" -> AppendUint64(buffer, CvtUint8(a, x))
    [] tag = "float32" -> AppendFloat32(buffer, Float32Bits(x))
    [] tag = "float64" -> AppendFloat64(buffer, x)
    [] tag = "int" -> AppendInt64(buffer, CvtInt64(a, x))
    [] tag = "int8" -> AppendInt64(buffer, CvtInt8(a, x))
    [] tag = "int16" -> AppendInt64(buffer, CvtInt16(a, x))
    [] tag = "int32" -> AppendInt64(buffer, CvtInt32(a, x))
    [] tag = "int64" -> AppendInt64(buffer, CvtInt64(a, x))
    [] tag = "uint" -> AppendUint64(buffer, CvtUint64(a, x))
    [] tag = "uint8" -> AppendUint64(buffer, CvtUint8(a, x))
    [] tag = "uint16" -> AppendUint64(buffer, CvtUint16(a, x))
    [] tag = "uint32" -> AppendUint64(buffer, CvtUint32(a, x))
    [] tag = "uint64" -> AppendUint64(buffer, CvtUint64(a, x))

\* m[key] of a map held as its entries
MapValue(m, key) == m[CHOOSE i \in 1..Len(m) : m[i][1] = key][2]

\* typeHints is [isNil |-> BOOLEAN, m |-> the entries <<key, tag sequence>>];
\* a lookup in a nil map finds nothing, like a lookup in an empty one
HintFound(h, key) == ~h.isNil /\ \E i \in 1..Len(h.m) : h.m[i][1] = key

\* case float64 of convert, always taking the first tag of the sequence
convertFloat64_FirstTag(a, h, st, x) ==
  IF HintFound(h, st.currentKey)
  THEN LET typeHint == MapValue(h.m, st.currentKey) IN
       IF Len(typeHint) = 0 THEN Fail(st, Panic("integer divide by zero"))
       ELSE LET currentHint == typeHint[1] IN
            IF currentHint \in NumericTags
            THEN Emit(st, "number", x, currentHint,
                      AppendHinted(a, st.buffer, currentHint, x))
            ELSE Fail(st, TypeHintErr(st.currentKey, currentHint))
  ELSE LET i == CvtInt64(a, x) IN
       IF FloatEq(Float64OfInt64(i), x)
       THEN Emit(st, "number", x, "", AppendInt64(st.buffer, i))
       ELSE Fail(st, NumericValueErr(x))

\* case float64 of convert, writing an integral value without a hint as unsigned
convertFloat64_Unsigned(a, h, st, x) ==
  IF HintFound(h, st.currentKey)
  THEN LET typeHint == MapValue(h.m, st.currentKey) IN
       IF Len(typeHint) = 0 THEN Fail(st, Panic("integer divide by zero"))
       ELSE LET currentHint == typeHint[(st.currentHint % Len(typeHint)) + 1] IN
            IF currentHint \in NumericTags
            THEN Emit(st, "number", x, currentHint,
                      AppendHinted(a, st.buffer, currentHint, x))
            ELSE Fail(st, TypeHintErr(st.currentKey, currentHint))
  ELSE LET i == CvtInt64(a, x) IN
       IF FloatEq(Float64OfInt64(i), x)
       THEN Emit(st, "number", x, "", AppendUint64(st.buffer, i))
       ELSE Fail(st, NumericValueErr(x))

\* case float64 of convert, writing a fractional value without a hint as a float
convertFloat64_FloatFallback(a, h, st, x) ==
  IF HintFound(h, st.currentKey)
  THEN LET typeHint == MapValue(h.m, st.currentKey) IN
       IF Len(typeHint) = 0 THEN Fail(st, Panic("integer divide by zero"))
       ELSE LET currentHint == typeHint[(st.currentHint % Len(typeHint)) + 1] IN
            IF currentHint \in NumericTags
            THEN Emit(st, "number", x, currentHint,
                      AppendHinted(a, st.buffer, currentHint, x))
            ELSE Fail(st, TypeHintErr(st.currentKey, currentHint))
  ELSE LET i == CvtInt64(a, x) IN
       IF FloatEq(Float64OfInt64(i), x)
       THEN Emit(st, "number", x, "", AppendInt64(st.buffer, i))
       ELSE Emit(st, "number", x, "", AppendFloat64(st.buffer, x))

\* case float64 of convert, treating an unlisted tag as int64
convertFloat64_DefaultInt64(a, h, st, x) ==
  IF HintFound(h, st.currentKey)
  THEN LET typeHint == MapValue(h.m, st.currentKey) IN
       IF Len(typeHint) = 0 THEN Fail(st, Panic("integer divide by zero"))
       ELSE LET currentHint == typeHint[(st.currentHint % Len(typeHint)) + 1] IN
            IF currentHint \in NumericTags
            THEN Emit(st, "number", x, currentHint,
                      AppendHinted(a, st.buffer, currentHint, x))
            ELSE Emit(st, "number", x, currentHint,
                      AppendInt64(st.buffer, CvtInt64(a, x)))
  ELSE LET i == CvtInt64(a, x) IN
       IF FloatEq(Float64OfInt64(i), x)
       THEN Emit(st, "number", x, "", AppendInt64(st.buffer, i))
       ELSE Fail(st, NumericValueErr(x))

\* case float64 of convert
convertFloat64(a, h, st, x) ==
  IF HintFound(h, st.currentKey)
  THEN LET typeHint == MapValue(h.m, st.currentKey) IN
       IF Len(typeHint) = 0 THEN Fail(st, Panic("integer divide by zero"))
       ELSE LET currentHint == typeHint[(st.currentHint % Len(typeHint)) + 1] IN
            IF currentHint \in NumericTags
            THEN Emit(st, "number", x, currentHint,
                      AppendHinted(a, st.buffer, currentHint, x))
            ELSE Fail(st, TypeHintErr(st.currentKey, currentHint))
  ELSE LET i == CvtInt64(a, x) IN
       IF FloatEq(Float64OfInt64(i), x)
       THEN Emit(st, "number", x, "", AppendInt64(st.buffer, i))
       ELSE Fail(st, NumericValueErr(x))

\* msgp.AppendIntf for the values that reach it from convert
AppendIntf(st, v) ==
  IF v.t = "nil" THEN Emit(st, "AppendIntf", <<>>, "", AppendNil(st.buffer))
  ELSE IF v.t = "bool" THEN Emit(st, "AppendIntf", <<>>, "", AppendBool(st.buffer, v.b))
  ELSE IF v.t \in SignedTypes THEN Emit(st, "AppendIntf", v.i, v.t, AppendInt64(st.buffer, v.i))
  ELSE IF v.t \in UnsignedTypes THEN Emit(st, "AppendIntf", v.i, v.t, AppendUint64(st.buffer, v.i))
  ELSE IF v.t = "float32" THEN Emit(st, "AppendIntf", v.f, v.t, AppendFloat32(st.buffer, v.f))
  ELSE Fail(st, UnsupportedTypeErr)

\* keys sorted by keys[i] < keys[j]
RECURSIVE InsertKey(_, _)
InsertKey(keys, k) ==
  IF Len(keys) = 0 THEN <<k>>
  ELSE IF BytesLess(k, keys[1]) THEN <<k>> \o keys
  ELSE <<keys[1]>> \o InsertKey(Tail(keys), k)

RECURSIVE SortedFrom(_, _)
SortedFrom(m, n) == IF n = 0 THEN <<>> ELSE InsertKey(SortedFrom(m, n - 1), m[n][1])

\* the keys of map m left in the order of the iteration that collected them
SortKeys_Unsorted(m) == AsTuple([i \in 1..Len(m) |-> m[i][1]])

\* the keys of map m in the order in which the loop over keys visits them
SortKeys(m) == SortedFrom(m, Len(m))

\* the loop of convertMapStrStr from keys[i] on
RECURSIVE strStrLoop(_, _, _, _)
strStrLoop(st, m, keys, i) ==
  IF i > Len(keys) THEN st
  ELSE LET key == keys[i]
           val == MapValue(m, key)
           s1 == Emit(st, "key", key, "", AppendString(st.buffer, key))
           s2 == [s1 EXCEPT !.currentKey = key]
           s3 == Emit(s2, "string", val, "", stringHeuristic(val, s2.buffer))
       IN strStrLoop(s3, m, keys, i + 1)

convertMapStrStr(st, m) ==
  strStrLoop(Emit(st, "map", <<>>, "", AppendMapHeader(st.buffer, Len(m))), m, SortKeys(m), 1)

RECURSIVE convert(_, _, _, _)
RECURSIVE strIntfLoop(_, _, _, _, _, _)
RECURSIVE intfSliceLoop(_, _, _, _, _)
RECURSIVE reflectSliceLoop(_, _, _, _, _)

\* the loop of convertMapStrIntf with the key written by stringHeuristic
strIntfLoop_KeyClassified(a, h, st, m, keys, i) ==
  IF i > Len(keys) THEN st
  ELSE LET key == keys[i]
           s1 == Emit(st, "key", key, "", stringHeuristic(key, st.buffer))
           s2 == convert(a, h, [s1 EXCEPT !.currentKey = key], MapValue(m, key))
       IN IF s2.err # NoErr THEN s2 ELSE strIntfLoop(a, h, s2, m, keys, i + 1)

\* the loop of convertMapStrIntf from keys[i] on
strIntfLoop(a, h, st, m, keys, i) ==
  IF i > Len(keys) THEN st
  ELSE LET key == keys[i]
           s1 == Emit(st, "key", key, "", AppendString(st.buffer, key))
           s2 == convert(a, h, [s1 EXCEPT !.currentKey = key], MapValue(m, key))
       IN IF s2.err # NoErr THEN s2 ELSE strIntfLoop(a, h, s2, m, keys, i + 1)

\* convertMapStrIntf giving currentKey back its value of before the object
convertMapStrIntf_KeyRestored(a, h, st, m) ==
  LET r == strIntfLoop(a, h, Emit(st, "map", <<>>, "", AppendMapHeader(st.buffer, Len(m))),
                       m, SortKeys(m), 1)
  IN [r EXCEPT !.currentKey = st.currentKey]

convertMapStrIntf(a, h, st, m) ==
  strIntfLoop(a, h, Emit(st, "map", <<>>, "", AppendMapHeader(st.buffer, Len(m))),
              m, SortKeys(m), 1)

\* the loop of case []interface{} with the counter set to the index of the
\* next element of this array, whatever a nested array left in it
intfSliceLoop_OwnIndex(a, h, st, x, i) ==
  IF i > Len(x) THEN st
  ELSE LET s1 == convert(a, h, st, x[i]) IN
       IF s1.err # NoErr THEN s1
       ELSE intfSliceLoop(a, h, [s1 EXCEPT !.currentHint = i], x, i + 1)

\* the loop of case []interface{} from x[i] on
intfSliceLoop(a, h, st, x, i) ==
  IF i > Len(x) THEN st
  ELSE LET s1 == convert(a, h, st, x[i]) IN
       IF s1.err # NoErr THEN s1
       ELSE intfSliceLoop(a, h, [s1 EXCEPT !.currentHint = @ + 1], x, i + 1)

\* the loop of case reflect.Array, reflect.Slice from index i on
reflectSliceLoop(a, h, st, x, i) ==
  IF i > Len(x) THEN st
  ELSE LET s1 == convert(a, h, st, x[i]) IN
       IF s1.err # NoErr THEN s1 ELSE reflectSliceLoop(a, h, s1, x, i + 1)

\* convert treating a native signed integer like a number of JSON
convert_NativeAsNumber(a, h, st, v) ==
  IF v.t = "string" THEN Emit(st, "string", v.s, "", stringHeuristic(v.s, st.buffer))
  ELSE IF v.t = "map[string]interface{}" THEN convertMapStrIntf(a, h, st, v.m)
  ELSE IF v.t = "map[string]string" THEN convertMapStrStr(st, v.m)
  ELSE IF v.t = "[]interface{}"
    THEN LET s1 == Emit(st, "array", <<>>, "", AppendArrayHeader(st.buffer, Len(v.xs)))
         IN intfSliceLoop(a, h, [s1 EXCEPT !.currentHint = 0], v.xs, 1)
  ELSE IF v.t = "float64" THEN convertFloat64(a, h, st, v.f)
  ELSE IF v.t \in SignedTypes THEN convertFloat64(a, h, st, Float64OfInt64(v.i))
  ELSE IF v.t = "ptr"
    THEN IF v.isNil THEN Fail(st, Panic("reflect: call of reflect.Value.Interface on zero Value"))
         ELSE convert(a, h, st, v.elem)
  ELSE IF v.t = "slice"
    THEN reflectSliceLoop(a, h,
           Emit(st, "array", <<>>, "", AppendArrayHeader(st.buffer, Len(v.xs))), v.xs, 1)
  ELSE AppendIntf(st, v)

convert(a, h, st, v) ==
  IF v.t = "string" THEN Emit(st, "string", v.s, "", stringHeuristic(v.s, st.buffer))
  ELSE IF v.t = "map[string]interface{}" THEN convertMapStrIntf(a, h, st, v.m)
  ELSE IF v.t = "map[string]string" THEN convertMapStrStr(st, v.m)
  ELSE IF v.t = "[]interface{}"
    THEN LET s1 == Emit(st, "array", <<>>, "", AppendArrayHeader(st.buffer, Len(v.xs)))
         IN intfSliceLoop(a, h, [s1 EXCEPT !.currentHint = 0], v.xs, 1)
  ELSE IF v.t = "float64" THEN convertFloat64(a, h, st, v.f)
  ELSE IF v.t = "ptr"
    THEN IF v.isNil THEN Fail(st, Panic("reflect: call of reflect.Value.Interface on zero Value"))
         ELSE convert(a, h, st, v.elem)
  ELSE IF v.t = "slice"
    THEN reflectSliceLoop(a, h,
           Emit(st, "array", <<>>, "", AppendArrayHeader(st.buffer, Len(v.xs))), v.xs, 1)
  ELSE AppendIntf(st, v)

\* a Converter kept between calls: the key and the counter of the last call
\* are still there when the next one starts
Convert_Reused(a, v, h) ==
  convert(a, h, [NewConverter EXCEPT !.currentKey = ret.currentKey,
                                     !.currentHint = ret.currentHint], v)

\* Convert(in, typeHints): the returned buffer and error, with the
\* Converter's fields and the log at the return
Convert(a, v, h) == convert(a, h, NewConverter, v)

-----------------------------------------------------------------------------
(* The inputs of the model *)

MaxLen == 2     \* longest generated array, slice or map

Nil == [t |-> "nil"]
Bool(b) == [t |-> "bool", b |-> b]
Str(s) == [t |-> "string", s |-> s]
Num(f) == [t |-> "float64", f |-> f]
Arr(xs) == [t |-> "[]interface{}", xs |-> xs]
Obj(m) == [t |-> "map[string]interface{}", m |-> m]
StrMap(m) == [t |-> "map[string]string", m |-> m]
NativeInt(type, n) == [t |-> type, i |-> I64(n)]
Ptr(v) == [t |-> "ptr", isNil |-> FALSE, elem |-> v]
NilPtr == [t |-> "ptr", isNil |-> TRUE, elem |-> Nil]
Slice(xs) == [t |-> "slice", xs |-> xs]
Struct == [t |-> "struct"]

\* float64 bit patterns
F0 == <<0, 0, 0, 0, 0, 0, 0, 0>>
F1 == <<63, 240, 0, 0, 0, 0, 0, 0>>
F255 == <<64, 111, 224, 0, 0, 0, 0, 0>>
F300 == <<64, 114, 192, 0, 0, 0, 0, 0>>
FMinus1 == <<191, 240, 0, 0, 0, 0, 0, 0>>
FMinus33 == <<192, 64, 128, 0, 0, 0, 0, 0>>
FHalf == <<63, 224, 0, 0, 0, 0, 0, 0>>                  \* 0.5
FMinus2Half == <<192, 4, 0, 0, 0, 0, 0, 0>>             \* -2.5
F1e10 == <<66, 2, 160, 95, 32, 0, 0, 0>>                \* 10000000000
F7776e9 == <<66, 156, 73, 246, 223, 0, 0, 0>>           \* 7776000000000
F2p63 == <<67, 224, 0, 0, 0, 0, 0, 0>>                  \* 2^63
F1e300 == <<126, 55, 228, 60, 136, 0, 117, 156>>
FNaN == <<127, 248, 0, 0, 0, 0, 0, 0>>

Floats ==
  {F0, F1, F255, F300, FMinus1, FMinus33, FHalf, FMinus2Half, F1e10, F7776e9,
   F2p63, F1e300, FNaN}

SFoo == <<102, 111, 111>>                 \* "foo"
SB64 == <<68, 119, 65, 61>>               \* "DwA="
SB64NoPad == <<68, 119, 65>>              \* "DwA"
SB64Url == <<95, 45, 65, 61>>             \* "_-A="
SB64Newline == <<68, 119, 10, 65, 61>>    \* "Dw\nA="
SNotUtf8 == <<255, 0>>
SNotUtf8B64 == <<68, 119, 65, 61, 192>>   \* "DwA=" and a stray byte
SAddress == CHOOSE a \in KnownAddresses : a[3] = 110   \* ndnf9ff...
SAddressUpper ==
  AsTuple([i \in 1..48 |-> IF SAddress[i] >= 97 THEN SAddress[i] - 32 ELSE SAddress[i]])
\* ndaea8w9gz84ncxryxepzxgkg9ymi4k7c9p427i6b57xxfqm: an address that is in no test
SAddressOther ==
  <<110,100,97,101,97,56,119,57,103,122,56,52,110,99,120,114,121,120,101,112,122,120,
    103,107,103,57,121,109,105,52,107,55,99,57,112,52,50,55,105,54,98,53,55,120,120,102,
    113,109>>
\* ndaea8w9gz84ncxryxepzxgkg9ymi4k7c9p427i6b57xw3r4: its checksum is that of another address
SAddressBadSum ==
  <<110,100,97,101,97,56,119,57,103,122,56,52,110,99,120,114,121,120,101,112,122,120,
    103,107,103,57,121,109,105,52,107,55,99,57,112,52,50,55,105,54,98,53,55,120,119,51,
    114,52>>
\* SAddress with its k written as U+212A KELVIN SIGN
SAddressKelvin ==
  SubSeq(SAddress, 1, 14) \o <<226, 132, 170>> \o SubSeq(SAddress, 16, 48)

\* 48 bytes that decode as base32 to fewer than 30 bytes with a right
\* checksum: 40 characters and 8 line feeds; 47 characters and one =; 40
\* characters with a CR LF in the middle and 6 line feeds
SAddressLoose ==
  {
   <<110,100,97,101,97,56,119,57,103,122,56,52,110,99,120,114,121,116,101,112,122,120,
     103,107,103,57,121,109,105,52,107,55,99,57,112,52,50,122,119,103,10,10,10,10,10,10,
     10,10>>,
   <<110,100,97,101,97,56,119,57,103,122,56,52,110,99,120,114,121,116,101,112,122,120,
     103,107,103,57,121,109,105,52,107,55,99,57,112,52,50,55,105,54,97,97,97,106,112,
     107,105,61>>,
   <<110,100,97,101,97,56,119,57,103,122,56,52,110,99,120,114,121,116,101,112,13,10,122,
     120,103,107,103,57,121,109,105,52,107,55,99,57,112,52,50,122,119,103,10,10,10,10,
     10,10>> }

Strings ==
  {<<>>, SFoo, SB64, SB64NoPad, SB64Url, SB64Newline, SNotUtf8, SNotUtf8B64,
   SAddress, SAddressUpper, SAddressOther, SAddressBadSum, SAddressKelvin}
  \cup SAddressLoose

KA == <<97>>            \* "a"
KAB == <<97, 98>>       \* "ab"
KUpperB == <<66>>       \* "B"
KEacute == <<195, 169>> \* "é"
Keys == {KA, KUpperB, KEacute}

SeqsUpTo(S, n) == UNION {[1..k -> S] : k \in 0..n}

\* maps of at most n entries in every iteration order
Entries(K, V, n) ==
  {m \in SeqsUpTo(K \X V, n) : \A i, j \in 1..Len(m) : i # j => m[i][1] # m[j][1]}

NumLeaves == {Num(f) : f \in Floats}
Leaves == {Nil, Bool(TRUE), Bool(FALSE)} \cup NumLeaves \cup {Str(s) : s \in Strings}

Elems == {Num(F1e10), Num(FHalf), Str(SB64), Nil}
FlatArrays == {Arr(xs) : xs \in SeqsUpTo(Elems, MaxLen)}
FlatMaps == {Obj(m) : m \in Entries(Keys, {Num(F1e10), Str(SB64)}, MaxLen)}

Inner == {Arr([i \in 1..k |-> Num(F1e10)]) : k \in 0..MaxLen}
Obj1 == Obj(<< <<KA, Num(F1e10)>> >>)
Obj2 == Obj(<< <<KAB, Num(F1e10)>>, <<KA, Num(F1e10)>> >>)
NestedArrays ==
  {Arr(xs) : xs \in SeqsUpTo(Inner \cup {Num(F1e10), Num(FHalf), Obj2}, MaxLen)}
NestedMaps ==
  {Obj(m) : m \in Entries({KA, KAB}, Inner \cup {Obj1, Num(F1e10), Num(FHalf)}, MaxLen)}

JSONDocs == Leaves \cup FlatArrays \cup FlatMaps \cup NestedArrays \cup NestedMaps

\* values that only a direct call of Convert can be given
NativeDocs ==
  {NativeInt("int", 255), NativeInt("int64", 0 - 33), NativeInt("uint64", 255), NativeInt("uint8", 7),
   [t |-> "float32", f |-> <<63, 0, 0, 0>>], Struct, NilPtr,
   Ptr(NativeInt("int", 255)), Ptr(Num(F1e10)), Ptr(Arr(<<Num(F1e10), Num(F1e10)>>)),
   Arr(<<NilPtr>>), Arr(<<Num(F1e10), Struct>>)}
  \cup {Slice(xs) : xs \in SeqsUpTo({Num(F1e10), Num(FHalf), NativeInt("int", 1)}, MaxLen)}
  \cup {Arr(<<Num(F1e10), Slice(xs), Num(F1e10)>>) : xs \in SeqsUpTo({Num(F1e10)}, MaxLen)}
  \cup {StrMap(m) : m \in Entries(Keys, {SB64, SNotUtf8}, MaxLen)}

\* native scalars under a key and inside an array
NativeScalarDocs ==
  {Obj(<< <<KA, v>> >>) : v \in {NativeInt("int", 255), NativeInt("uint8", 7), Bool(TRUE)}}
  \cup {Arr(<<Num(F1e10), NativeInt("uint8", 7), NativeInt("int64", 0 - 33)>>)}

\* maps whose key would be a blob if it went through stringHeuristic
KeyDocs ==
  {Obj(<< <<k, v>> >>) : k \in {SB64, SNotUtf8}, v \in {Num(F1e10), Str(SB64)}}
  \cup {StrMap(<< <<k, SB64>> >>) : k \in {SB64, SNotUtf8}}

\* the JSON text handed to ConvertStream is either not JSON at all or
\* denotes one of JSONDocs
BadJSON == [t |-> "not JSON"]

Hints(m) == [isNil |-> FALSE, m |-> m]
NilHints == [isNil |-> TRUE, m |-> <<>>]
CoreHints ==
  {NilHints,
   Hints(<<>>),
   Hints(<< <<<<>>, <<"int64", "uint64">>>> >>),
   Hints(<< <<KA, <<"uint64">>>> >>),
   Hints(<< <<KA, <<"bogus">>>> >>),
   Hints(<< <<<<>>, <<"int64", "bogus">>>> >>),
   Hints(<< <<KAB, <<>>>> >>),
   Hints(<< <<KAB, <<"uint64">>>> >>),
   Hints(<< <<<<>>, <<"uint8", "int16", "float32">>>>, <<KA, <<"int64">>>> >>)}
TagHints == {Hints(<< <<<<>>, <<tag>>>> >>) : tag \in NumericTags \cup {"", "Int64"}}

Archs == {"amd64", "arm64"}

\* the calls of the model: the build, the value, the hints
Cases ==
  ((JSONDocs \cup NativeDocs \cup NativeScalarDocs \cup KeyDocs \cup {BadJSON})
     \X CoreHints \X {"amd64"})
  \cup (NumLeaves \X (CoreHints \cup TagHints) \X Archs)

-----------------------------------------------------------------------------
(* The two entry points *)

\* what json.Unmarshal into an interface{} can yield
RECURSIVE IsJSON(_)
IsJSON(v) ==
  \/ v.t \in {"nil", "bool"}
  \/ v.t = "string" /\ ValidString(v.s)
  \/ v.t = "float64" /\ IsFinite(v.f)
  \/ v.t = "[]interface{}" /\ \A i \in 1..Len(v.xs) : IsJSON(v.xs[i])
  \/ v.t = "map[string]interface{}"
       /\ \A i \in 1..Len(v.m) : ValidString(v.m[i][1]) /\ IsJSON(v.m[i][2])

IsBadJSON(v) == v.t = "not JSON"

Init ==
  /\ \E c \in Cases : in = c[1] /\ typeHints = c[2] /\ arch = c[3]
  /\ pc = "idle"
  /\ jsobj = Nil
  /\ ret = NewConverter
  /\ out = <<>>
  /\ writes = 0
  /\ streamErr = ""
  /\ calls = <<>>

\* one completed call of Convert: its two arguments and its two results
Call(v, h, r) == [in |-> v, typeHints |-> h, buffer |-> r.buffer, err |-> r.err]

\* a direct call of Convert(in, typeHints), from entry to return
CallConvert ==
  /\ pc = "idle"
  /\ ~IsBadJSON(in)
  /\ ret' = Convert(arch, in, typeHints)
  /\ calls' = Append(calls, Call(in, typeHints, ret'))
  /\ pc' = "returned"
  /\ UNCHANGED <<arch, in, typeHints, jsobj, out, writes, streamErr>>

\* ConvertStream: buffer.ReadFrom(in) succeeds
StreamRead ==
  /\ pc = "idle"
  /\ IsBadJSON(in) \/ IsJSON(in)
  /\ pc' = "read"
  /\ UNCHANGED <<arch, in, typeHints, jsobj, ret, out, writes, streamErr, calls>>

\* ConvertStream: buffer.ReadFrom(in) fails
StreamReadFails ==
  /\ pc = "idle"
  /\ IsBadJSON(in) \/ IsJSON(in)
  /\ pc' = "stream returned"
  /\ streamErr' = "ConvertStream reading input"
  /\ UNCHANGED <<arch, in, typeHints, jsobj, ret, out, writes, calls>>

\* ConvertStream: json.Unmarshal
StreamUnmarshal ==
  /\ pc = "read"
  /\ IF IsBadJSON(in)
     THEN /\ pc' = "stream returned"
          /\ streamErr' = "ConvertStream unmarshalling JSON"
          /\ UNCHANGED jsobj
     ELSE /\ pc' = "unmarshalled"
          /\ jsobj' = in
          /\ UNCHANGED streamErr
  /\ UNCHANGED <<arch, in, typeHints, ret, out, writes, calls>>

\* ConvertStream going on to the write whatever Convert returned
StreamConvert_ErrIgnored ==
  /\ pc = "unmarshalled"
  /\ ret' = Convert(arch, jsobj, typeHints)
  /\ calls' = Append(calls, Call(jsobj, typeHints, ret'))
  /\ pc' = "converted"
  /\ UNCHANGED <<arch, in, typeHints, jsobj, out, writes, streamErr>>

\* ConvertStream: msgp, err := Convert(jsobj, typeHints)
StreamConvert ==
  /\ pc = "unmarshalled"
  /\ ret' = Convert(arch, jsobj, typeHints)
  /\ calls' = Append(calls, Call(jsobj, typeHints, ret'))
  /\ IF ret'.err # NoErr
     THEN pc' = "stream returned" /\ streamErr' = ret'.err.kind
     ELSE pc' = "converted" /\ UNCHANGED streamErr
  /\ UNCHANGED <<arch, in, typeHints, jsobj, out, writes>>

\* ConvertStream: out.Write(msgp) writes everything
StreamWrite ==
  /\ pc = "converted"
  /\ out' = out \o ret.buffer
  /\ writes' = writes + 1
  /\ pc' = "stream returned"
  /\ UNCHANGED <<arch, in, typeHints, jsobj, ret, streamErr, calls>>

\* ConvertStream: out.Write(msgp) fails after n bytes
StreamWriteFails ==
  /\ pc = "converted"
  /\ \E n \in {0, Len(ret.buffer) - 1} :
        /\ n >= 0
        /\ out' = out \o SubSeq(ret.buffer, 1, n)
  /\ writes' = writes + 1
  /\ pc' = "stream returned"
  /\ streamErr' = "ConvertStream writing to out stream"
  /\ UNCHANGED <<arch, in, typeHints, jsobj, ret, calls>>

Next ==
  \/ CallConvert
  \/ StreamRead
  \/ StreamReadFails
  \/ StreamUnmarshal
  \/ StreamConvert
  \/ StreamWrite
  \/ StreamWriteFails

Spec == Init /\ [][Next]_vars

-----------------------------------------------------------------------------
(* A caller that calls Convert again and again *)

MaxCalls == 3

\* the arguments of the repeated calls: a root number, an array that leaves
\* the counter at 1, an object that leaves the key at "a", a failing number
RepeatDocs == {Num(F1e10), Arr(<<Num(F1e10)>>), Obj1, Num(FHalf)}
RepeatHints ==
  {Hints(<< <<<<>>, <<"int64", "uint64">>>> >>),
   Hints(<< <<KA, <<"uint64">>>> >>)}
RepeatCases == RepeatDocs \X RepeatHints

InitCalls ==
  /\ \E c \in RepeatCases : in = c[1] /\ typeHints = c[2]
  /\ arch = "amd64"
  /\ pc = "idle"
  /\ jsobj = Nil
  /\ ret = NewConverter
  /\ out = <<>>
  /\ writes = 0
  /\ streamErr = ""
  /\ calls = <<>>

\* Convert has returned (a value or an error) and the caller calls it again
\* with arguments of its choice; ret still holds what the last call left
NextCall ==
  /\ pc = "returned"
  /\ Len(calls) < MaxCalls
  /\ ret.err.kind # "panic"
  /\ \E c \in RepeatCases : in' = c[1] /\ typeHints' = c[2]
  /\ pc' = "idle"
  /\ UNCHANGED <<arch, jsobj, ret, out, writes, streamErr, calls>>

NextCalls ==
  \/ CallConvert
  \/ NextCall

SpecCalls == InitCalls /\ [][NextCalls]_vars

-----------------------------------------------------------------------------
(* Reading the output: the MessagePack leaves, decoded *)

\* a blob leaf and a text leaf of fewer than 256 bytes
BlobLeaf(p) == <<196, Len(p)>> \o p
TextLeaf(p) == IF Len(p) <= 31 THEN <<160 + Len(p)>> \o p ELSE <<217, Len(p)>> \o p

\* an integer leaf of the signed family: fixint, negative fixint, int8..int64
IsSignedLeaf(d) ==
  \/ Len(d) = 1 /\ (d[1] <= 127 \/ d[1] >= 224)
  \/ d[1] \in 208..211 /\ Len(d) = 1 + Pow2(d[1] - 208)

\* an integer leaf of the unsigned family: fixint, uint8..uint64
IsUnsignedLeaf(d) ==
  \/ Len(d) = 1 /\ d[1] <= 127
  \/ d[1] \in 204..207 /\ Len(d) = 1 + Pow2(d[1] - 204)

\* the value of an integer leaf, as 64 bits
IntLeafValue(d) ==
  LET p == IF Len(d) = 1 THEN d ELSE Tail(d)
      fill == IF p[1] >= 128 /\ (d[1] >= 224 \/ d[1] \in 208..211) THEN 255 ELSE 0
  IN Repeat(fill, 8 - Len(p)) \o p

\* the entries of the log that record a number leaf
NumberEvents == {k \in 1..Len(ret.log) : ret.log[k].op = "number"}

\* the hint sequence of key, <<>> when the hints have no entry for it
HintSeq(key) == IF HintFound(typeHints, key) THEN MapValue(typeHints.m, key) ELSE <<>>

Returned == pc = "returned"

-----------------------------------------------------------------------------
(* The string classifier *)

\* C1: every string value is encoded, without error, by the first rule that
\* applies: not valid UTF-8 -> blob of the raw bytes; a valid ndau address ->
\* text; canonical padded base64 -> blob of the decoded bytes; otherwise text.
C1_StringClassifier ==
  /\ Returned => \A k \in 1..Len(ret.log) :
       LET e == ret.log[k]
           s == e.arg
       IN e.op = "string" =>
            /\ e.data = (IF ~ValidString(s) THEN BlobLeaf(s)
                         ELSE IF Validate(s) THEN TextLeaf(s)
                         ELSE IF B64Valid(s) THEN BlobLeaf(B64Decode(s))
                         ELSE TextLeaf(s))
            /\ s = SB64 => e.data = <<196, 2, 15, 0>>
            /\ s = SNotUtf8 => e.data = <<196, 2, 255, 0>>
            /\ s = SNotUtf8B64 => e.data = <<196, 5, 68, 119, 65, 61, 192>>
            /\ s = SFoo => e.data = <<163, 102, 111, 111>>
            /\ s = SAddress => e.data = <<217, 48>> \o SAddress
            /\ s = SAddressUpper => e.data = <<217, 48>> \o SAddressUpper
            /\ s = SAddressOther => e.data = <<217, 48>> \o SAddressOther
            /\ s = SAddressKelvin => e.data = <<217, 50>> \o SAddressKelvin
            /\ s \in SAddressLoose => e.data = <<217, 48>> \o s
            /\ s = SAddressBadSum =>
                 Len(e.data) = 38 /\ SubSeq(e.data, 1, 5) = <<196, 36, 157, 214, 158>>
  /\ (Returned /\ in.t = "string") =>
       ret.err = NoErr /\ Len(ret.log) = 1 /\ ret.log[1].arg = in.s /\ ret.buffer = ret.log[1].data

\* an address that is also canonical base64 was encoded as text
C1_Witness ==
  /\ Returned
  /\ in = Str(SAddress)
  /\ B64Valid(SAddress)
  /\ ret.err = NoErr
  /\ ret.buffer = <<217, 48>> \o SAddress

-----------------------------------------------------------------------------
(* The numeric resolver *)

\* C2: a number reached while the hints hold a non-empty sequence for
\* currentKey is encoded with the tag seq[currentHint mod len]; an array of
\* numbers under hints {"": [int64, uint64]} with no key seen has its elements
\* of even index written as int64 and those of odd index as uint64.
C2_HintSelection ==
  /\ Returned => \A k \in NumberEvents :
       LET e == ret.log[k]
           seq == HintSeq(e.currentKey)
       IN Len(seq) > 0 =>
            /\ e.tag = seq[(e.currentHint % Len(seq)) + 1]
            /\ e.data = AppendHinted(arch, <<>>, seq[(e.currentHint % Len(seq)) + 1], e.arg)
  /\ (/\ Returned
      /\ in.t = "[]interface{}"
      /\ \A j \in 1..Len(in.xs) : in.xs[j].t = "float64"
      /\ typeHints = Hints(<< <<<<>>, <<"int64", "uint64">>>> >>))
     => /\ ret.err = NoErr
        /\ Len(ret.log) = Len(in.xs) + 1
        /\ \A j \in 1..Len(in.xs) :
             LET d == ret.log[j + 1].data
                 x == in.xs[j].f
             IN /\ ret.log[j + 1].arg = x
                /\ (j - 1) % 2 = 0 =>
                     IsSignedLeaf(d) /\ IntLeafValue(d) = CvtInt64(arch, x)
                /\ (j - 1) % 2 = 1 =>
                     IsUnsignedLeaf(d) /\ IntLeafValue(d) = CvtUint64(arch, x)
                /\ x = F1e10 => d[1] = (IF (j - 1) % 2 = 0 THEN 211 ELSE 207)

\* [1e10, 1e10] under {"": [int64, uint64]}: 0xd3 then 0xcf
C2_Witness ==
  /\ Returned
  /\ in = Arr(<<Num(F1e10), Num(F1e10)>>)
  /\ typeHints = Hints(<< <<<<>>, <<"int64", "uint64">>>> >>)
  /\ ret.buffer = <<146, 211, 0, 0, 0, 2, 84, 11, 228, 0, 207, 0, 0, 0, 2, 84, 11, 228, 0>>

\* C3: without a hint for currentKey, a number with no fractional part that
\* lies in the int64 range is encoded, without error, as a leaf of the signed
\* family whose value is the number.
C3_LosslessInteger ==
  /\ Returned => \A k \in NumberEvents :
       LET e == ret.log[k] IN
       (~HintFound(typeHints, e.currentKey) /\ FitsInt64(e.arg) /\ ~HasFraction(e.arg)) =>
          /\ e.tag = ""
          /\ IsSignedLeaf(e.data)
          /\ IntLeafValue(e.data) = TruncInt64(e.arg)
          /\ FloatEq(Float64OfInt64(IntLeafValue(e.data)), e.arg)
  /\ (Returned /\ ret.err.kind = "Unsupported numeric value") =>
       ~(FitsInt64(ret.err.value) /\ ~HasFraction(ret.err.value))
  /\ (/\ Returned
      /\ in.t = "float64"
      /\ ~HintFound(typeHints, <<>>)
      /\ FitsInt64(in.f) /\ ~HasFraction(in.f))
     => ret.err = NoErr /\ NumberEvents = {1} /\ ret.buffer = ret.log[1].data

\* 7776000000000 without hints: d3 00 00 07 12 7d b7 c0 00
C3_Witness ==
  /\ Returned
  /\ in = Num(F7776e9)
  /\ typeHints = NilHints
  /\ ret.err = NoErr
  /\ ret.buffer = <<211, 0, 0, 7, 18, 125, 183, 192, 0>>

\* C4: without a hint for currentKey, a number with a fractional part makes
\* the call fail with "Unsupported numeric value" carrying the number; it is
\* never written, as a float or otherwise.
C4_FractionRejected ==
  /\ Returned => \A k \in NumberEvents :
       LET e == ret.log[k] IN
       ~HintFound(typeHints, e.currentKey) =>
          ~HasFraction(e.arg) /\ e.data[1] \notin {202, 203}
  /\ (Returned /\ in.t = "float64" /\ ~HintFound(typeHints, <<>>) /\ HasFraction(in.f))
     => ret.err = NumericValueErr(in.f) /\ ret.buffer = <<>> /\ ret.log = <<>>
  /\ (/\ Returned
      /\ in.t = "[]interface{}"
      /\ ~HintFound(typeHints, <<>>)
      /\ \A j \in 1..Len(in.xs) : in.xs[j].t \in {"float64", "string", "nil"}
      /\ \E j \in 1..Len(in.xs) : in.xs[j].t = "float64" /\ HasFraction(in.xs[j].f))
     => LET first == CHOOSE j \in 1..Len(in.xs) :
                        /\ in.xs[j].t = "float64" /\ HasFraction(in.xs[j].f)
                        /\ \A i \in 1..(j - 1) :
                             ~(in.xs[i].t = "float64" /\ HasFraction(in.xs[i].f))
        IN /\ ret.err = NumericValueErr(in.xs[first].f)
           /\ Len(ret.log) = first

\* 0.5 without hints is refused
C4_Witness ==
  /\ Returned
  /\ in = Num(FHalf)
  /\ typeHints = NilHints
  /\ ret.err.kind = "Unsupported numeric value"
  /\ ret.err.value = FHalf
  /\ ret.buffer = <<>>

\* C5: when the selected tag is not one of the thirteen listed numeric types
\* the call fails with "Unsupported numeric type hint" naming currentKey and
\* the tag, and no number is written for that leaf.
C5_UnsupportedTag ==
  /\ (Returned /\ ret.err.kind = "Unsupported numeric type hint") =>
       LET seq == HintSeq(ret.currentKey) IN
       /\ Len(seq) > 0
       /\ ret.err.key = ret.currentKey
       /\ ret.err.tag = seq[(ret.currentHint % Len(seq)) + 1]
       /\ ret.err.tag \notin NumericTags
  /\ Returned => \A k \in NumberEvents :
       LET e == ret.log[k] IN
       HintFound(typeHints, e.currentKey) => e.tag \in NumericTags
  /\ (/\ Returned
      /\ in.t = "float64"
      /\ Len(HintSeq(<<>>)) > 0
      /\ HintSeq(<<>>)[1] \notin NumericTags)
     => ret.err = TypeHintErr(<<>>, HintSeq(<<>>)[1]) /\ ret.buffer = <<>> /\ ret.log = <<>>
  /\ (/\ Returned
      /\ in.t = "map[string]interface{}"
      /\ Len(in.m) = 1
      /\ in.m[1][2].t = "float64"
      /\ Len(HintSeq(in.m[1][1])) > 0
      /\ HintSeq(in.m[1][1])[1] \notin NumericTags)
     => /\ ret.err = TypeHintErr(in.m[1][1], HintSeq(in.m[1][1])[1])
        /\ NumberEvents = {}
        /\ ret.buffer = <<129>> \o TextLeaf(in.m[1][1])

\* {"a": 1e10} under {"a": ["bogus"]} fails naming "a" and "bogus"
C5_Witness ==
  /\ Returned
  /\ in = Obj1
  /\ typeHints = Hints(<< <<KA, <<"bogus">>>> >>)
  /\ ret.err = TypeHintErr(KA, "bogus")
  /\ ret.buffer = <<129, 161, 97>>

-----------------------------------------------------------------------------
(* The structural encoder and the two entry points *)

\* byte-lexicographic order: the first differing byte decides, a proper
\* prefix comes first
LexLess(a, b) ==
  \E i \in 1..Len(b) :
     /\ i - 1 <= Len(a)
     /\ \A j \in 1..(i - 1) : a[j] = b[j]
     /\ i = Len(a) + 1 \/ a[i] < b[i]

Perms(n) == {p \in [1..n -> 1..n] : \A i, j \in 1..n : p[i] = p[j] => i = j}
Reordered(m, p) == AsTuple([i \in 1..Len(m) |-> m[p[i]]])

\* the same document with the entries of every map, at every depth, iterated
\* in the opposite order
RECURSIVE Mirror(_)
Mirror(v) ==
  IF v.t = "map[string]interface{}"
  THEN Obj(AsTuple([i \in 1..Len(v.m) |->
             <<v.m[Len(v.m) + 1 - i][1], Mirror(v.m[Len(v.m) + 1 - i][2])>>]))
  ELSE IF v.t = "map[string]string"
  THEN StrMap(AsTuple([i \in 1..Len(v.m) |-> v.m[Len(v.m) + 1 - i]]))
  ELSE IF v.t = "[]interface{}" THEN Arr(AsTuple([i \in 1..Len(v.xs) |-> Mirror(v.xs[i])]))
  ELSE IF v.t = "slice" THEN Slice(AsTuple([i \in 1..Len(v.xs) |-> Mirror(v.xs[i])]))
  ELSE IF v.t = "ptr" /\ ~v.isNil THEN Ptr(Mirror(v.elem))
  ELSE v

IsMap(v) == v.t \in {"map[string]interface{}", "map[string]string"}
KeyEvents == {k \in 1..Len(ret.log) : ret.log[k].op = "key"}

\* C6: the entries of an object are emitted in ascending byte-lexicographic
\* order of their keys, so the output does not depend on the order in which
\* the map is iterated.
C6_SortedKeys ==
  /\ (Returned /\ IsMap(in)) =>
       \A p \in Perms(Len(in.m)) :
          LET r == Convert(arch, [in EXCEPT !.m = Reordered(in.m, p)], typeHints)
          IN r.buffer = ret.buffer /\ r.err = ret.err
  /\ (Returned /\ ~IsBadJSON(in)) =>
       LET r == Convert(arch, Mirror(in), typeHints)
       IN r.buffer = ret.buffer /\ r.err = ret.err
  /\ (Returned /\ IsMap(in) /\ \A i \in 1..Len(in.m) : in.t = "map[string]string" \/ ~IsMap(in.m[i][2]))
     => /\ \A i, j \in KeyEvents : i < j => LexLess(ret.log[i].arg, ret.log[j].arg)
        /\ \A i \in KeyEvents : \E n \in 1..Len(in.m) : in.m[n][1] = ret.log[i].arg
        /\ ret.err = NoErr => Cardinality(KeyEvents) = Len(in.m)

\* {"é": 1e10, "B": "DwA="} iterated in that order is written "B" first
C6_Witness ==
  /\ Returned
  /\ in = Obj(<< <<KEacute, Num(F1e10)>>, <<KUpperB, Str(SB64)>> >>)
  /\ typeHints = NilHints
  /\ ret.buffer = <<130, 161, 66, 196, 2, 15, 0,
                    162, 195, 169, 211, 0, 0, 0, 2, 84, 11, 228, 0>>

\* C7 as claimed: when Convert fails, the bytes it returns with the error
\* contain none of the bytes encoded before the failure.
C7_NoPartialOutput ==
  (Returned /\ ret.err # NoErr) => ret.buffer = <<>>

\* C8: ConvertStream writes nothing when reading, parsing or encoding fails;
\* it writes at most once, and only the complete encoding of the document
\* after Convert has succeeded.
C8_StreamAllOrNothing ==
  /\ writes <= 1
  /\ writes = 0 => out = <<>>
  /\ writes = 1 =>
       /\ pc = "stream returned"
       /\ ret.err = NoErr
       /\ Len(out) <= Len(ret.buffer) /\ out = SubSeq(ret.buffer, 1, Len(out))
       /\ streamErr \in {"", "ConvertStream writing to out stream"}
  /\ (pc = "stream returned" /\ streamErr = "") =>
       /\ writes = 1
       /\ LET r == Convert(arch, in, typeHints) IN r.err = NoErr /\ out = r.buffer
  /\ (pc = "stream returned" /\ streamErr \notin {"", "ConvertStream writing to out stream"}) =>
       out = <<>> /\ writes = 0
  /\ (pc = "stream returned" /\ ret.err # NoErr) => out = <<>> /\ writes = 0 /\ streamErr = ret.err.kind

\* the encoding failed after bytes had been encoded, and nothing was written
C8_Witness ==
  /\ pc = "stream returned"
  /\ streamErr = "Unsupported numeric value"
  /\ Len(ret.buffer) > 0
  /\ out = <<>>
  /\ writes = 0

\* C9 as claimed: every array, a []interface{} or a natively typed array or
\* slice, writes the header of its length, sets currentHint to 0 before its
\* first element and increments it after each element, and leaves currentKey
\* as it was.
C9_EveryArrayCounts ==
  (/\ Returned
   /\ in.t \in {"[]interface{}", "slice"}
   /\ \A j \in 1..Len(in.xs) : in.xs[j].t = "float64"
   /\ ret.err = NoErr)
  => /\ Len(ret.log) = Len(in.xs) + 1
     /\ ret.log[1].op = "array" /\ ret.log[1].data = <<144 + Len(in.xs)>>
     /\ \A j \in 1..Len(in.xs) :
          ret.log[j + 1].currentHint = j - 1 /\ ret.log[j + 1].currentKey = <<>>
     /\ ret.currentHint = Len(in.xs)
     /\ ret.currentKey = <<>>

\* the first byte and the payload length of each tag's fixed-width format
TagHeader(tag) ==
  CASE tag = "int8" -> 208 [] tag = "int16" -> 209 [] tag = "int32" -> 210
    [] tag \in {"int", "int64"} -> 211
    [] tag \in {"byte", "uint8"} -> 204 [] tag = "uint16" -> 205 [] tag = "uint32" -> 206
    [] tag \in {"uint", "uint64"} -> 207
    [] tag = "float32" -> 202 [] tag = "float64" -> 203
TagBits(tag) ==
  CASE tag \in {"int8", "uint8", "byte"} -> 8
    [] tag \in {"int16", "uint16"} -> 16
    [] tag \in {"int32", "uint32", "float32"} -> 32
    [] OTHER -> 64

\* C10 as claimed: a number resolved through a hint is written in the
\* fixed-width format of its tag, whatever its value.
C10_FixedWidth ==
  Returned => \A k \in NumberEvents :
     LET e == ret.log[k] IN
     e.tag \in NumericTags =>
        e.data[1] = TagHeader(e.tag) /\ Len(e.data) = 1 + TagBits(e.tag) \div 8

\* the length of the narrowest format of each family that holds v
SignedLen(v) ==
  IF I64LessEq(I64(0 - 32), v) /\ I64LessEq(v, I64(127)) THEN 1
  ELSE IF Truncate(v, 8, TRUE) = v THEN 2
  ELSE IF Truncate(v, 16, TRUE) = v THEN 3
  ELSE IF Truncate(v, 32, TRUE) = v THEN 5
  ELSE 9
UnsignedLen(v) ==
  IF U64LessEq(v, I64(127)) THEN 1
  ELSE IF Truncate(v, 8, FALSE) = v THEN 2
  ELSE IF Truncate(v, 16, FALSE) = v THEN 3
  ELSE IF Truncate(v, 32, FALSE) = v THEN 5
  ELSE 9

\* C10, amended: only the float tags fix the format (0xca and 4 bytes, 0xcb
\* and 8 bytes).  An integer tag fixes the cast and the family: the leaf is
\* the narrowest format of the signed (int*) or unsigned (uint*, byte) family
\* that holds the cast value, never wider than the tag, and holds the number
\* itself when the number is an integer of the tag's range; 0 under uint64
\* is the single byte 00.
C10_NarrowestOfFamily ==
  /\ Returned => \A k \in NumberEvents :
       LET e == ret.log[k]
           d == e.data
           signed == e.tag \in SignedTypes
           exact == /\ ~HasFraction(e.arg)
                    /\ IF signed THEN FitsInt64(e.arg) ELSE FitsUint64(e.arg)
                    /\ LET n == IF signed THEN TruncInt64(e.arg) ELSE IntMagnitude(e.arg)
                       IN Truncate(n, TagBits(e.tag), signed) = n
       IN e.tag \in NumericTags =>
            IF e.tag = "float64" THEN d = <<203>> \o e.arg
            ELSE IF e.tag = "float32" THEN d[1] = 202 /\ Len(d) = 5
            ELSE /\ IF signed THEN IsSignedLeaf(d) ELSE IsUnsignedLeaf(d)
                 /\ Len(d) = (IF signed THEN SignedLen(IntLeafValue(d))
                              ELSE UnsignedLen(IntLeafValue(d)))
                 /\ Len(d) <= 1 + TagBits(e.tag) \div 8
                 /\ Truncate(IntLeafValue(d), TagBits(e.tag), signed) = IntLeafValue(d)
                 /\ exact => IntLeafValue(d) =
                               (IF signed THEN TruncInt64(e.arg) ELSE IntMagnitude(e.arg))
  /\ (Returned /\ in.t = "float64" /\ IsZero(in.f) /\ HintSeq(<<>>) = <<"uint64">>) =>
       ret.err = NoErr /\ ret.buffer = <<0>>

\* 0 under the hint uint64 was written as one byte
C10_Witness ==
  /\ Returned
  /\ in = Num(F0)
  /\ typeHints = Hints(<< <<<<>>, <<"uint64">>>> >>)
  /\ ret.err = NoErr
  /\ ret.buffer = <<0>>

-----------------------------------------------------------------------------
(* Pointers and empty hint sequences *)

\* C11 as claimed: a pointer is dereferenced before dispatch: a non-nil
\* pointer is encoded as the value it points to, and a nil pointer, at the
\* root or nested, is encoded as nil (0xc0) without failing.
C11_PointerDereferenced ==
  /\ (Returned /\ in.t = "ptr") =>
       IF in.isNil THEN ret.err = NoErr /\ ret.buffer = <<192>>
       ELSE LET r == Convert(arch, in.elem, typeHints)
            IN ret.buffer = r.buffer /\ ret.err = r.err
  /\ (Returned /\ in.t = "[]interface{}" /\ Len(in.xs) = 1 /\ in.xs[1].t = "ptr"
        /\ in.xs[1].isNil) =>
       ret.err = NoErr /\ ret.buffer = <<145, 192>>

\* C12 as claimed: a number whose current key maps to an empty hint sequence
\* is resolved by the rule without a hint (int64 when lossless, otherwise
\* "Unsupported numeric value"), and the call never crashes.
C12_EmptyHintIgnored ==
  /\ Returned => \A k \in NumberEvents :
       LET e == ret.log[k] IN
       (HintFound(typeHints, e.currentKey) /\ Len(HintSeq(e.currentKey)) = 0) =>
          e.tag = "" /\ IsSignedLeaf(e.data) /\ IntLeafValue(e.data) = TruncInt64(e.arg)
  /\ (/\ Returned
      /\ in.t = "map[string]interface{}"
      /\ Len(in.m) = 1
      /\ in.m[1][2].t = "float64"
      /\ HintFound(typeHints, in.m[1][1])
      /\ Len(HintSeq(in.m[1][1])) = 0)
     => LET x == in.m[1][2].f IN
        /\ ret.err.kind # "panic"
        /\ IF FitsInt64(x) /\ ~HasFraction(x)
           THEN ret.err = NoErr /\ Cardinality(NumberEvents) = 1
           ELSE ret.err = NumericValueErr(x)

-----------------------------------------------------------------------------
(* The walk: hints under the empty key, the counter, the current key *)

IsNumbers(v) ==
  v.t = "[]interface{}" /\ \A j \in 1..Len(v.xs) : v.xs[j].t = "float64"

\* C13 as claimed: the hint sequence of the empty key applies to every array
\* of numbers, also to one under an object field that has no entry of its
\* own: element j is written with the tag seq[j mod len] of the empty key.
C13_EmptyKeyWildcard ==
  LET seq == HintSeq(<<>>)
      tagged(xs, first) ==
        /\ Len(ret.log) = first + Len(xs) - 1
        /\ \A j \in 1..Len(xs) :
             /\ ret.log[first + j - 1].op = "number"
             /\ ret.log[first + j - 1].arg = xs[j].f
             /\ ret.log[first + j - 1].data =
                  AppendHinted(arch, <<>>, seq[((j - 1) % Len(seq)) + 1], xs[j].f)
  IN (Returned /\ Len(seq) > 0 /\ \A n \in 1..Len(seq) : seq[n] \in NumericTags) =>
       /\ IsNumbers(in) => tagged(in.xs, 2)
       /\ (/\ in.t = "map[string]interface{}"
           /\ Len(in.m) = 1
           /\ ~HintFound(typeHints, in.m[1][1])
           /\ IsNumbers(in.m[1][2]))
          => tagged(in.m[1][2].xs, 4)

\* the number leaves of the log, in the order of the walk
NumberSeq == SelectSeq(ret.log, LAMBDA e : e.op = "number")

\* the counter each number of an array of numbers and arrays of numbers is
\* to see, from element i on with the counter at c
RECURSIVE CountersFrom(_, _, _)
CountersFrom(xs, i, c) ==
  IF i > Len(xs) THEN <<>>
  ELSE IF xs[i].t = "float64" THEN <<c>> \o CountersFrom(xs, i + 1, c + 1)
  ELSE AsTuple([j \in 1..Len(xs[i].xs) |-> j - 1])
         \o CountersFrom(xs, i + 1, Len(xs[i].xs) + 1)

\* C14: the counter is set to 0 on entry to every array and is neither saved
\* nor restored: element j of an inner array of numbers sees j, and the
\* sibling that follows an inner array of length k sees k + 1.
C14_CounterNotRestored ==
  (/\ Returned
   /\ in.t = "[]interface{}"
   /\ \A j \in 1..Len(in.xs) : in.xs[j].t = "float64" \/ IsNumbers(in.xs[j]))
  => LET expected == CountersFrom(in.xs, 1, 0)
         seq == HintSeq(<<>>)
     IN /\ Len(NumberSeq) <= Len(expected)
        /\ ret.err = NoErr => Len(NumberSeq) = Len(expected)
        /\ \A n \in 1..Len(NumberSeq) :
             /\ NumberSeq[n].currentHint = expected[n]
             /\ Len(seq) > 0 =>
                  NumberSeq[n].data =
                    AppendHinted(arch, <<>>, seq[(expected[n] % Len(seq)) + 1], NumberSeq[n].arg)
        /\ (Len(in.xs) = 2 /\ IsNumbers(in.xs[1]) /\ in.xs[2].t = "float64"
              /\ ret.err = NoErr) =>
             NumberSeq[Len(NumberSeq)].currentHint = Len(in.xs[1].xs) + 1
        /\ ret.err = NoErr =>
             ret.currentHint = (IF Len(in.xs) = 0 THEN 0
                                ELSE IF in.xs[Len(in.xs)].t = "float64"
                                  THEN expected[Len(expected)] + 1
                                ELSE Len(in.xs[Len(in.xs)].xs) + 1)

\* [[1e10], 1e10] under {"": [int64, uint64]}: the sibling sees counter 2 and
\* is written as int64, not as the uint64 of its own index 1
C14_Witness ==
  /\ Returned
  /\ in = Arr(<<Arr(<<Num(F1e10)>>), Num(F1e10)>>)
  /\ typeHints = Hints(<< <<<<>>, <<"int64", "uint64">>>> >>)
  /\ ret.log[4].currentHint = 2
  /\ ret.buffer = <<146, 145, 211, 0, 0, 0, 2, 84, 11, 228, 0,
                    211, 0, 0, 0, 2, 84, 11, 228, 0>>

\* the key of the last entry emitted before log entry k, <<>> when none was
LastKeyBefore(k) ==
  LET before == {i \in KeyEvents : i < k}
  IN IF before = {} THEN <<>>
     ELSE ret.log[CHOOSE i \in before : \A j \in before : j <= i].arg

\* the greatest key of a non-empty map
GreatestKey(m) ==
  m[CHOOSE i \in 1..Len(m) : \A j \in 1..Len(m) : j = i \/ LexLess(m[j][1], m[i][1])][1]

\* C15: currentKey is always the key of the entry emitted last, anywhere in
\* the document (empty before any), and leaving an object does not restore
\* it: a number that follows an object in an array has its hint looked up
\* under the greatest key of that object.
C15_LastKeySeen ==
  Returned =>
    /\ \A k \in 1..Len(ret.log) : ret.log[k].currentKey = LastKeyBefore(k)
    /\ ret.currentKey = LastKeyBefore(Len(ret.log) + 1)
    /\ (/\ in.t = "[]interface{}"
        /\ Len(in.xs) = 2
        /\ in.xs[1].t = "map[string]interface{}"
        /\ Len(in.xs[1].m) > 0
        /\ \A n \in 1..Len(in.xs[1].m) : in.xs[1].m[n][2].t = "float64"
        /\ in.xs[2].t = "float64"
        /\ ret.err = NoErr)
       => LET g == GreatestKey(in.xs[1].m)
              e == ret.log[Len(ret.log)]
              seq == HintSeq(g)
          IN /\ e.op = "number" /\ e.arg = in.xs[2].f
             /\ e.currentKey = g
             /\ e.data = (IF Len(seq) > 0
                          THEN AppendHinted(arch, <<>>, seq[(1 % Len(seq)) + 1], e.arg)
                          ELSE AppendInt64(<<>>, CvtInt64(arch, e.arg)))

\* [{"ab": 1e10, "a": 1e10}, 1e10] under {"ab": [uint64]}: the last element
\* is written as uint64
C15_Witness ==
  /\ Returned
  /\ in = Arr(<<Obj2, Num(F1e10)>>)
  /\ typeHints = Hints(<< <<KAB, <<"uint64">>>> >>)
  /\ ret.err = NoErr
  /\ ret.log[Len(ret.log)].currentKey = KAB
  /\ ret.log[Len(ret.log)].data = <<207, 0, 0, 0, 2, 84, 11, 228, 0>>

\* C16: the key of every object entry is written as a string holding the
\* key unchanged, never through the string classifier (a key that is base64
\* or not UTF-8 is still a string), and it is written, and currentKey set to
\* it, before the value of the entry is encoded.
C16_KeysAreStrings ==
  Returned =>
    /\ \A k \in KeyEvents :
         LET e == ret.log[k] IN
         /\ e.data = TextLeaf(e.arg)
         /\ e.data[1] \in 160..191 \cup {217}
         /\ e.arg = SB64 => e.data = <<164, 68, 119, 65, 61>>
         /\ e.arg = SNotUtf8 => e.data = <<162, 255, 0>>
         /\ k < Len(ret.log) =>
              /\ ret.log[k + 1].op # "key"
              /\ ret.log[k + 1].currentKey = e.arg
              /\ ret.log[k + 1].at = e.at + Len(e.data)
         /\ k = Len(ret.log) => ret.currentKey = e.arg
    /\ (IsMap(in) /\ Len(in.m) = 1) =>
         /\ Len(ret.log) >= 2
         /\ ret.log[2].op = "key" /\ ret.log[2].arg = in.m[1][1] /\ ret.log[2].at = 1
         /\ SubSeq(ret.buffer, 2, 1 + Len(TextLeaf(in.m[1][1]))) = TextLeaf(in.m[1][1])

\* {"DwA=": "DwA="}: the key is text, the value the decoded blob
C16_Witness ==
  /\ Returned
  /\ in = StrMap(<< <<SB64, SB64>> >>)
  /\ ret.err = NoErr
  /\ ret.buffer = <<129, 164, 68, 119, 65, 61, 196, 2, 15, 0>>

-----------------------------------------------------------------------------
(* Native scalars *)

\* a Go integer, float32 or bool, as opposed to the float64 of a JSON number
IsNativeScalar(v) == v.t \in SignedTypes \cup UnsignedTypes \cup {"float32", "bool"}

\* d is the leaf of the generic encoder for the native scalar v
IsGenericLeaf(v, d) ==
  IF v.t = "bool" THEN d = <<IF v.b THEN 195 ELSE 194>>
  ELSE IF v.t = "float32" THEN d = <<202>> \o v.f
  ELSE IF v.t \in SignedTypes
    THEN IsSignedLeaf(d) /\ IntLeafValue(d) = v.i /\ Len(d) = SignedLen(v.i)
  ELSE IsUnsignedLeaf(d) /\ IntLeafValue(d) = v.i /\ Len(d) = UnsignedLen(v.i)

\* C17: a native integer, float32 or bool is encoded by the generic encoder
\* of its kind: the leaf is the same under every hint table and at every
\* currentKey and currentHint, and the scalar never fails with "Unsupported
\* numeric type hint" or "Unsupported numeric value".
C17_NativeScalars ==
  Returned =>
    /\ IsNativeScalar(in) =>
         /\ ret.err = NoErr
         /\ IsGenericLeaf(in, ret.buffer)
         /\ \A h \in CoreHints \cup TagHints :
              LET r == Convert(arch, in, h) IN r.err = NoErr /\ r.buffer = ret.buffer
    /\ (in.t = "map[string]interface{}" /\ Len(in.m) = 1 /\ IsNativeScalar(in.m[1][2])) =>
         /\ ret.err = NoErr
         /\ Len(ret.log) = 3
         /\ ret.log[3].currentKey = in.m[1][1]
         /\ IsGenericLeaf(in.m[1][2], ret.log[3].data)
    /\ (in.t \in {"[]interface{}", "slice"}
          /\ \A j \in 1..Len(in.xs) : IsNativeScalar(in.xs[j])) =>
         /\ ret.err = NoErr
         /\ Len(ret.log) = Len(in.xs) + 1
         /\ \A j \in 1..Len(in.xs) : IsGenericLeaf(in.xs[j], ret.log[j + 1].data)
    /\ (in.t = "[]interface{}" /\ Len(in.xs) = 3 /\ in.xs[1].t = "float64"
          /\ IsNativeScalar(in.xs[2]) /\ IsNativeScalar(in.xs[3])
          /\ Len(ret.log) = 4) =>
         /\ ret.err = NoErr
         /\ ret.log[3].currentHint = 1 /\ IsGenericLeaf(in.xs[2], ret.log[3].data)
         /\ ret.log[4].currentHint = 2 /\ IsGenericLeaf(in.xs[3], ret.log[4].data)
    /\ \A k \in 1..Len(ret.log) :
         LET e == ret.log[k] IN
         (e.op = "AppendIntf" /\ e.tag \in SignedTypes \cup UnsignedTypes) =>
            IsGenericLeaf([t |-> e.tag, i |-> e.arg], e.data)

\* {"a": 255} with a native int under {"a": ["bogus"]}: d1 00 ff, no error
C17_Witness ==
  /\ Returned
  /\ in = Obj(<< <<KA, NativeInt("int", 255)>> >>)
  /\ typeHints = Hints(<< <<KA, <<"bogus">>>> >>)
  /\ ret.err = NoErr
  /\ ret.buffer = <<129, 161, 97, 209, 0, 255>>

-----------------------------------------------------------------------------
(* Repeated calls *)

\* C18: every call of Convert starts from a fresh context and an empty
\* buffer: the first thing it emits is at offset 0 under currentKey "" and
\* currentHint 0, its result is the one a first call with the same (value,
\* hints) gives, and two calls with the same arguments, whatever was
\* converted in between, return the same bytes or the same error.
C18_FreshContext ==
  /\ \A i \in 1..Len(calls) :
       LET first == convert(arch, calls[i].typeHints, NewConverter, calls[i].in) IN
       /\ calls[i].buffer = first.buffer
       /\ calls[i].err = first.err
  /\ \A i, j \in 1..Len(calls) :
       (calls[i].in = calls[j].in /\ calls[i].typeHints = calls[j].typeHints) =>
          /\ calls[i].buffer = calls[j].buffer
          /\ calls[i].err = calls[j].err
  /\ (Returned /\ ret.log # <<>>) =>
       /\ ret.log[1].currentKey = <<>>
       /\ ret.log[1].currentHint = 0
       /\ ret.log[1].at = 0
  /\ Returned => typeHints = calls[Len(calls)].typeHints

\* 1e10 under {"a": ["uint64"]}, then {"a": 1e10}, which leaves currentKey at
\* "a", then 1e10 again: d3 00 00 00 02 54 0b e4 00 both times
C18_Witness ==
  /\ Returned
  /\ Len(calls) = 3
  /\ calls[1].in = Num(F1e10)
  /\ calls[1].typeHints = Hints(<< <<KA, <<"uint64">>>> >>)
  /\ calls[2].in = Obj1
  /\ calls[2].typeHints = calls[1].typeHints
  /\ calls[3].in = calls[1].in
  /\ calls[3].typeHints = calls[1].typeHints
  /\ ret.currentKey = <<>>
  /\ calls[1].buffer = <<211, 0, 0, 0, 2, 84, 11, 228, 0>>
  /\ calls[3].buffer = calls[1].buffer
  /\ calls[3].err = NoErr

====
